---- MODULE Spec2Model ----
(***************************************************************************)
(* A state-machine model of the D-NeRF training / rendering driver         *)
(* (src/run_dgdnerf.py): train(), create_nerf(), render_path(), render(),  *)
(* batchify_rays() and render_rays().                                      *)
(*                                                                         *)
(* The experiment directory <basedir>/<expname>/ is the variable `files`,  *)
(* a function from file names to contents.  File names are sequences of    *)
(* one-character strings, so that Python's '{:06d}'.format, the substring  *)
(* test 'tar' in f and sorted() are modelled by what they do.              *)
(***************************************************************************)
EXTENDS Integers, Sequences, FiniteSets, TLC

VARIABLES
    \* ---- the file system and the process (train) ----
    files,          \* experiment directory: file name -> content
    dirExists,      \* whether <basedir>/<expname>/ exists
    run,            \* number of train() invocations started so far
    args,           \* parsed arguments and loaded dataset of the current run
    pc,             \* position of the current run inside train()
    outcome,        \* how the current run ended ("running" until it does)
    start,          \* train(): start
    global_step,    \* train(): global_step
    i,              \* train(): loop variable i
    network_fn,     \* coarse network weights (number of updates since init)
    network_fine,   \* fine network weights, "None" when there is no fine net
    optimizer,      \* Adam state: t steps taken, lr = lrate * 0.1^(lr.num / lr.den)
    latents,        \* ray_bending_latents_list, one value per frame or << >>
    writer,         \* whether the SummaryWriter (logging sink) was created
    grads,          \* the .grad of the network weights and of every latent code
    render_times,   \* train(): render_times, the times handed to the exports
    \* ---- history variables, read only by the properties ----
    effects,        \* side effects performed by the current run
    iterlog,        \* events of the current loop iteration, in order
    trace,          \* <<i, global_step>> of every iteration of the current run
    written,        \* every checkpoint ever written: name -> first content
    held,           \* name -> the in-memory training state when it was saved
    loaded,         \* name of the checkpoint the current run loaded, or NoPath
    exported,       \* the times every export of the current run rendered with
    applied,        \* the gradients the last optimizer.step() of the run applied
    \* ---- render(): one call of render() / batchify_rays() ----
    rcall,          \* the arguments of the render() call in progress
    rpc,            \* position inside render() / batchify_rays()
    rays,           \* render(): the ray batch (one record row per ray)
    offset,         \* batchify_rays(): loop variable i
    all_ret,        \* batchify_rays(): key -> list of per-chunk results
    chunks,         \* history: the chunk offsets processed, in order
    draws,          \* history: the random draws of the call, in order
    prev,           \* history: the last call that returned, and its result
    \* ---- render_path(): one call ----
    pcall,          \* the arguments of the render_path() call in progress
    ppc,            \* position inside render_path()
    frame,          \* render_path(): loop variable i
    rgbs,           \* render_path(): rgbs (the inputs rendered, in order)
    disps,          \* render_path(): disps
    depths,         \* render_path(): depths
    rgbs_gt,        \* render_path(): rgbs_gt
    imwrites,       \* history: <<subdirectory, file name>> of every imwrite
    metrics,        \* history: the compute_metrics calls of this call
    pret,           \* what render_path() returned or raised
    \* ---- raw2outputs(): one call, one ray ----
    rawcall,        \* the alpha values and the sample depths z_vals of the ray
    rawpc,          \* position inside raw2outputs()
    weights,        \* raw2outputs(): weights
    acc_map,        \* raw2outputs(): acc_map
    depth_map,      \* raw2outputs(): depth_map
    depth_std_map,  \* raw2outputs(): depth_std_map
    \* ---- train(): the sampling and the renders of one iteration ----
    icall,          \* the iteration number, the options and the dataset
    ipc,            \* position inside the loop body
    img_idx,        \* train(): img_i, as a frame number
    select_coords,  \* train(): select_coords, the pixels of the ray batch
    extras,         \* train(): extras, the keys of the first render's dictionary
    rerenders,      \* history: the renders at a perturbed time, in order
    tv_loss,        \* history: the keys the temporal-smoothness loss compared
    iret,           \* how the iteration ended
    \* ---- stratified_samples(): one ray ----
    scall,          \* the coarse depths of the ray and perturb
    spc,            \* position of the call
    z_strat,        \* render_rays(): z_coarse after line 617, in quarters
    \* ---- create_nerf(): the choice of the checkpoint ----
    selcall,        \* the run that wrote the checkpoints
    selpc,          \* position of the start
    ckpt_dir,       \* the experiment directory: file name -> content
    chosen_path     \* create_nerf(): ckpt_path

procVars   == <<files, dirExists, run, args, pc, outcome, start, global_step, i,
                network_fn, network_fine, optimizer, latents, writer, render_times, grads>>
histVars   == <<effects, iterlog, trace, written, held, loaded, exported, applied>>
renderVars == <<rcall, rpc, rays, offset, all_ret, chunks, draws, prev>>
pathVars   == <<pcall, ppc, frame, rgbs, disps, depths, rgbs_gt, imwrites, metrics, pret>>
rawVars    == <<rawcall, rawpc, weights, acc_map, depth_map, depth_std_map>>
iterVars   == <<icall, ipc, img_idx, select_coords, extras, rerenders, tv_loss, iret>>
stratVars  == <<scall, spc, z_strat>>
selVars    == <<selcall, selpc, ckpt_dir, chosen_path>>
fnVars     == <<pathVars, rawVars, iterVars, stratVars, selVars>>
vars       == <<procVars, histVars, renderVars, fnVars>>

-----------------------------------------------------------------------------
(* Bounds of the model *)

MaxRuns == 2            \* train() invocations on one experiment directory
MaxIter == 2            \* largest iteration budget N_iter
MaxInterval == 2        \* largest logging / saving interval
MaxRenderPoses == 2     \* length of the loader's render trajectory
MaxRays == 3            \* rays in one render() call
MaxChunk == 3           \* largest ray-chunk size
MaxLatentSize == 2      \* largest ray_bending_latent_size
MaxLrateDecay == 1      \* largest lrate_decay (decay period in 1000 steps)
MaxSamples == 3         \* samples along one ray in raw2outputs()
MaxOffset == 11         \* largest base offset i_offset of render_path()
MaxFrames == 5          \* training frames, and iterations of the warm-up window
MaxSide == 3            \* largest image height
MaxBatch == 2           \* largest N_rand
MaxDepth == 4           \* largest coarse sample depth
MaxDigits == 7          \* digits of the largest iteration numbers

-----------------------------------------------------------------------------
(* Strings as sequences of characters *)

\* The characters used in file names, in code-point order.
Chars == << ".", "0", "1", "2", "3", "4", "5", "6", "7", "8", "9", "N", "_",
            "a", "b", "c", "d", "e", "f", "g", "h", "i", "j", "k", "l", "m",
            "n", "o", "p", "q", "r", "s", "t", "u", "v", "w", "x", "y", "z" >>

Ord(c) == CHOOSE k \in 1..Len(Chars) : Chars[k] = c

\* Python's str < str: lexicographic by code point, a proper prefix is smaller.
RECURSIVE StrLess(_, _)
StrLess(a, b) ==
    IF b = << >> THEN FALSE
    ELSE IF a = << >> THEN TRUE
    ELSE IF Head(a) # Head(b) THEN Ord(Head(a)) < Ord(Head(b))
    ELSE StrLess(Tail(a), Tail(b))

\* sorted(names): the names in ascending order.
RECURSIVE Sorted(_)
Sorted(S) ==
    IF S = {} THEN << >>
    ELSE LET m == CHOOSE x \in S : \A y \in S \ {x} : StrLess(x, y)
         IN  <<m>> \o Sorted(S \ {m})

\* sub in s
Contains(s, sub) ==
    \E k \in 1..(Len(s) - Len(sub) + 1) : SubSeq(s, k, k + Len(sub) - 1) = sub

Digit(d) == Chars[d + 2]

\* str(n) for n >= 0
RECURSIVE Decimal(_)
Decimal(n) == IF n < 10 THEN <<Digit(n)>> ELSE Decimal(n \div 10) \o <<Digit(n % 10)>>

\* '{:0<w>d}'.format(n): zero-padded to at least w digits, never truncated
RECURSIVE ZeroPad(_, _)
ZeroPad(s, w) == IF Len(s) >= w THEN s ELSE ZeroPad(<<"0">> \o s, w)

Format06d(n) == ZeroPad(Decimal(n), 6)
Format03d(n) == ZeroPad(Decimal(n), 3)

-----------------------------------------------------------------------------
(* File names inside <basedir>/<expname>/ *)

NoPath == << >>                         \* Python None for args.ft_path
NoneString == <<"N", "o", "n", "e">>     \* the string 'None'
TarExpName == <<"s", "t", "a", "r">>      \* an experiment name containing 'tar'

ArgsTxt == <<"a", "r", "g", "s", ".", "t", "x", "t">>
ConfigTxt == <<"c", "o", "n", "f", "i", "g", ".", "t", "x", "t">>

\* os.path.join(basedir, expname, '{:06d}.tar'.format(i))
CkptName(n) == Format06d(n) \o <<".", "t", "a", "r">>

\* 'renderonly_{}_{:06d}'.format('test' if args.render_test else 'path', start)
RenderOnlyDir(render_test, n) ==
    <<"r", "e", "n", "d", "e", "r", "o", "n", "l", "y", "_">> \o
    (IF render_test THEN <<"t", "e", "s", "t">> ELSE <<"p", "a", "t", "h">>) \o
    <<"_">> \o Format06d(n)

\* 'testset_{:06d}'.format(i)
TestsetDir(n) == <<"t", "e", "s", "t", "s", "e", "t", "_">> \o Format06d(n)

\* 'frames_{}_spiral_{:06d}_time/'.format(expname, i)
FramesDir(expname, n) ==
    <<"f", "r", "a", "m", "e", "s", "_">> \o expname \o <<"_", "s", "p", "i", "r", "a", "l", "_">> \o Format06d(n) \o <<"_", "t", "i", "m", "e">>

\* '{}_spiral_{:06d}_'.format(expname, i) + 'rgb.mp4' / 'disp.mp4'
MovieBase(expname, n) == expname \o <<"_", "s", "p", "i", "r", "a", "l", "_">> \o Format06d(n) \o <<"_">>
MovieRgb(expname, n) == MovieBase(expname, n) \o <<"r", "g", "b", ".", "m", "p", "4">>
MovieDisp(expname, n) == MovieBase(expname, n) \o <<"d", "i", "s", "p", ".", "m", "p", "4">>

\* f"step_{i:06d}_" + "ray_debug.pickle"
RayDebugFile(n) == <<"s", "t", "e", "p", "_">> \o Format06d(n) \o <<"_", "r", "a", "y", "_", "d", "e", "b", "u", "g", ".", "p", "i", "c", "k", "l", "e">>

\* files with one more entry (open(..., 'w'), torch.save, makedirs + writes)
Put(f, name, content) ==
    [x \in (DOMAIN f) \cup {name} |-> IF x = name THEN content ELSE f[x]]

NoFiles == [x \in {} |-> "none"]

-----------------------------------------------------------------------------
(* Arguments and datasets: the inputs of one train() invocation *)

NoArgs == [expname |-> << >>]

DatasetTypes == {"blender", "deepdeform", "owndataset", "llff"}
DepthLossTypes == {"mse", "gnll", "l1"}

\* Frame times of the loaded capture, by frame; frames 1..3 are the training
\* split, frame 4 the validation split, frame 5 the test split.  A time is an
\* integer: 0 and 1 are the ends of the unit interval, -1 and 2 lie outside.
TimesChoices == { <<0, 0, 1, 0, 1>>,     \* spans [0,1]
                  <<0, 1, 1, 0, 1>>,     \* spans [0,1]
                  <<1, 1, 1, 1, 1>>,     \* within [0,1], does not start at 0
                  <<0, 2, 1, 0, 1>>,     \* a middle training frame outside [0,1]
                  <<-1, 0, 1, 0, 1>>,    \* starts before 0
                  <<0, 1, 2, 0, 1>> }    \* ends after 1

\* A configuration every field of which has its argparse default role; the
\* families below vary some of the fields.
BaseArgs ==
    [ expname |-> <<"e", "x", "p">>,
      dataset_type |-> "deepdeform",
      times |-> <<0, 0, 1, 0, 1>>,
      i_train |-> <<1, 2, 3>>, i_val |-> <<4>>, i_test |-> <<5>>,
      n_render |-> MaxRenderPoses,
      depth_loss_type |-> "mse",
      depth_loss_weight |-> 1,
      use_depth_guided_sampling |-> FALSE,
      config |-> TRUE,
      render_only |-> FALSE,
      render_test |-> FALSE,
      no_batching |-> TRUE,
      no_reload |-> FALSE,
      ft_path |-> NoPath,
      N_iter |-> 1,
      i_weights |-> 1, i_print |-> 1, i_img |-> 1, i_video |-> 1, i_testset |-> 1,
      use_latent_codes_as_time |-> FALSE,
      use_two_models_for_fine |-> FALSE,
      lrate |-> 5000,                   \* 5e-4, in units of 1e-7
      lrate_decay |-> 1,
      grad_values |-> {2} ]             \* raw gradient components, in units of 0.1

\* train() lines 867-913: only the synthetic loader returns no depth maps
HasDepthMaps(a) == a.dataset_type # "blender"

\* train() line 926
comp_depth(a) == a.depth_loss_weight > 0 \/ a.use_depth_guided_sampling

\* train() line 1021
use_batching(a) == ~a.no_batching

-----------------------------------------------------------------------------
(* Outcomes of a run *)

Warnings == {"warn_unknown_dataset", "warn_depth_loss_type", "warn_no_depth_maps"}
Exceptions == {"AssertionError", "AttributeError", "FileNotFoundError",
               "UnpicklingError", "TypeError", "NotImplementedError"}
Returns == Warnings \cup {"render_only_return", "completed"}

-----------------------------------------------------------------------------
(* render_path(): the frames one call writes into savedir *)

\* The frame name without the base offset
FrameName_NoOffset(k, i_offset) == Format03d(k)

\* render_path() lines 275, 279, 290, 294: '{:03d}.png'.format(i+i_offset)
FrameName(k, i_offset) == Format03d(k + i_offset)

\* render_path() lines 245-307: n frames, named '{:03d}.png'.format(i+i_offset);
\* ground truth is mirrored, and compute_metrics called, only under save_also_gt.
\* gt_given remembers whether the caller passed gt_imgs and gt_depths.
RenderPath(n, i_offset, gt_given, save_also_gt) ==
    LET names == { FrameName(k, i_offset) : k \in 0..(n - 1) }
    IN  [ kind |-> "dir",
          gt_given |-> gt_given,
          estim |-> names,
          estim_depth |-> names,
          gt |-> IF save_also_gt THEN names ELSE {},
          gt_depth |-> IF save_also_gt THEN names ELSE {},
          metrics |-> IF save_also_gt THEN 1 ELSE 0,
          videos |-> {} ]

\* Writing into a directory that may exist already (os.makedirs(exist_ok=True),
\* imageio.imwrite): files of the same name are replaced, the others stay.
MergeDir(f, name, d) ==
    IF name \in DOMAIN f /\ f[name].kind = "dir"
    THEN [ kind |-> "dir",
           gt_given |-> f[name].gt_given \/ d.gt_given,
           estim |-> f[name].estim \cup d.estim,
           estim_depth |-> f[name].estim_depth \cup d.estim_depth,
           gt |-> f[name].gt \cup d.gt,
           gt_depth |-> f[name].gt_depth \cup d.gt_depth,
           metrics |-> f[name].metrics + d.metrics,
           videos |-> f[name].videos \cup d.videos ]
    ELSE d

-----------------------------------------------------------------------------
(* Checkpoints *)

\* The dictionary with the step counter as it is during the iteration
SaveDict_StepNotAdvanced ==
    [ kind |-> "ckpt",
      global_step |-> global_step,
      network_fn_state_dict |-> network_fn,
      optimizer_state_dict |-> optimizer,
      network_fine_state_dict |-> network_fine,
      ray_bending_latent_codes |-> latents ]

\* train() lines 1228-1234: the dictionary handed to torch.save
SaveDict ==
    [ kind |-> "ckpt",
      global_step |-> global_step + 1,
      network_fn_state_dict |-> network_fn,
      optimizer_state_dict |-> optimizer,
      network_fine_state_dict |-> network_fine,
      ray_bending_latent_codes |-> latents ]

\* create_nerf() lines 402-405: the candidate checkpoints
Ckpts(a, f) ==
    IF a.ft_path # NoPath /\ a.ft_path # NoneString
    THEN << a.ft_path >>
    ELSE Sorted({ n \in DOMAIN f : Contains(n, <<"t", "a", "r">>) })

\* The reload test without the render-only exception
ShouldReload_IgnoresRenderOnly(a, ckpts) == Len(ckpts) > 0 /\ ~a.no_reload

\* create_nerf() line 412
ShouldReload(a, ckpts) == Len(ckpts) > 0 /\ (~a.no_reload \/ a.render_only)

\* create_nerf() lines 426-428: zip(autodecoder_variables, saved) copies the
\* saved codes into the existing ones, as far as both lists go.
RestoreLatents(cur, saved) ==
    [ k \in 1..Len(cur) |-> IF k <= Len(saved) THEN saved[k] ELSE cur[k] ]

\* train() lines 961-968: one zero latent code per frame, or the empty list
InitLatents(a) ==
    IF a.use_latent_codes_as_time THEN [ k \in 1..Len(a.times) |-> 0 ] ELSE << >>

\* The learning rate lrate * 0.1 ** (num / den) is kept as the exponent
\* num / den, a fraction.
\* A gradient is kept as the set of iterations whose backward pass added to
\* it and its value in units of 0.1; None is the gradient nothing added to.
NoGrad == [ from |-> {}, value |-> 0 ]

\* create_nerf() lines 322-354: the trainable parameters (grad_vars): the
\* latent codes and the network weights, none with a gradient yet
NoGrads(codes) == [ network_fn |-> NoGrad, latents |-> [ k \in 1..Len(codes) |-> NoGrad ] ]

\* The gradients left as they are
ZeroGrad_Keep(g) == g

\* train() lines 1158-1161: optimizer.zero_grad() and latent.grad = None
ZeroGrad(g) == NoGrads(g.latents)

\* train() lines 1198-1202: loss.backward() adds the gradient of iteration k
\* to the network weights and to the latent code of the sampled frame
Backward(g, k, img_i, v, latent_mode) ==
    LET add(old) == [ from |-> old.from \cup {k}, value |-> old.value + v ]
    IN  [ network_fn |-> add(g.network_fn),
          latents |-> IF latent_mode
                      THEN [g.latents EXCEPT ![img_i] = add(@)]
                      ELSE g.latents ]

\* torch.nn.utils.clip_grad_value_: clamp to [-clip_value, clip_value]
Clamp(x, c) == IF x > c THEN c ELSE IF x < -c THEN -c ELSE x

\* train() line 1204: nn.utils.clip_grad_value_(grad_vars, 0.1), on every
\* parameter that has a gradient
ClipGrad(g) ==
    LET clip(old) == IF old = NoGrad THEN old ELSE [old EXCEPT !.value = Clamp(@, 1)]
    IN  [ network_fn |-> clip(g.network_fn),
          latents |-> [ k \in 1..Len(g.latents) |-> clip(g.latents[k]) ] ]

\* create_nerf() line 386: a fresh Adam optimizer at the base learning rate
InitOptimizer == [ t |-> 0, lr |-> [num |-> 0, den |-> 1] ]

\* The decay period without the factor 1000
decay_steps_NoThousand(a) == a.lrate_decay

\* train() line 1211
decay_steps(a) == a.lrate_decay * 1000

\* train() lines 1210-1212: lrate * (decay_rate ** (global_step / decay_steps))
new_lrate(a, step) == [num |-> step, den |-> decay_steps(a)]

-----------------------------------------------------------------------------
(* train(): one invocation of the program on the experiment directory *)

RenderIdle ==
    /\ rcall = [mode |-> "none"]
    /\ rpc = "idle"
    /\ rays = << >>
    /\ offset = 0
    /\ all_ret = << >>
    /\ chunks = << >>
    /\ draws = << >>
    /\ prev = [call |-> [mode |-> "none"], ret |-> << >>]

\* no render_path() call in progress
PathIdle ==
    /\ pcall = [n |-> 0]
    /\ ppc = "idle"
    /\ frame = 0
    /\ rgbs = << >>
    /\ disps = << >>
    /\ depths = << >>
    /\ rgbs_gt = << >>
    /\ imwrites = << >>
    /\ metrics = << >>
    /\ pret = [kind |-> "none"]

\* no raw2outputs() call in progress
RawIdle ==
    /\ rawcall = [alpha |-> << >>, z_vals |-> << >>]
    /\ rawpc = "idle"
    /\ weights = << >>
    /\ acc_map = << >>
    /\ depth_map = << >>
    /\ depth_std_map = [radicand |-> << >>, plus |-> 0]

\* no iteration in progress
IterIdle ==
    /\ icall = [i |-> 0]
    /\ ipc = "idle"
    /\ img_idx = 0
    /\ select_coords = << >>
    /\ extras = {}
    /\ rerenders = << >>
    /\ tv_loss = << >>
    /\ iret = "none"

\* no call in progress
StratIdle ==
    /\ scall = [perturb |-> 0]
    /\ spc = "idle"
    /\ z_strat = << >>

\* no start in progress
SelIdle ==
    /\ selcall = [N_iter |-> 0]
    /\ selpc = "idle"
    /\ ckpt_dir = NoFiles
    /\ chosen_path = NoPath

FreshProcess ==
    /\ args' = NoArgs
    /\ pc' = "idle"
    /\ outcome' = "running"
    /\ start' = 0
    /\ global_step' = 0
    /\ i' = 0
    /\ network_fn' = 0
    /\ network_fine' = "None"
    /\ optimizer' = InitOptimizer
    /\ latents' = << >>
    /\ writer' = FALSE
    /\ render_times' = << >>
    /\ exported' = << >>
    /\ grads' = NoGrads(<< >>)
    /\ applied' = NoGrads(<< >>)
    /\ effects' = << >>
    /\ iterlog' = << >>
    /\ trace' = << >>
    /\ loaded' = NoPath

Init ==
    /\ files = NoFiles
    /\ dirExists = FALSE
    /\ run = 0
    /\ args = NoArgs
    /\ pc = "idle"
    /\ outcome = "running"
    /\ start = 0
    /\ global_step = 0
    /\ i = 0
    /\ network_fn = 0
    /\ network_fine = "None"
    /\ optimizer = InitOptimizer
    /\ latents = << >>
    /\ writer = FALSE
    /\ render_times = << >>
    /\ exported = << >>
    /\ grads = NoGrads(<< >>)
    /\ applied = NoGrads(<< >>)
    /\ effects = << >>
    /\ iterlog = << >>
    /\ trace = << >>
    /\ written = NoFiles
    /\ held = NoFiles
    /\ loaded = NoPath
    /\ RenderIdle
    /\ PathIdle
    /\ RawIdle
    /\ IterIdle
    /\ StratIdle
    /\ SelIdle

\* The run ends: by a return or by an exception that leaves train().
Finish(how) ==
    /\ outcome' = how
    /\ pc' = "done"

\* train() lines 862-863: parse the arguments.  `limit` is the number of
\* invocations on the same experiment directory that the family looks at.
Start(Configs, limit) ==
    /\ pc = "idle"
    /\ run < limit
    /\ \E a \in Configs : args' = a
    /\ run' = run + 1
    /\ pc' = "load_data"
    /\ UNCHANGED <<files, dirExists, outcome, start, global_step, i, network_fn,
                   network_fine, optimizer, latents, writer>>
    /\ UNCHANGED histVars
    /\ UNCHANGED renderVars
    /\ UNCHANGED fnVars
    /\ UNCHANGED <<render_times, grads>>

\* train() lines 867-913: load the dataset, or warn and return
LoadData ==
    /\ pc = "load_data"
    /\ IF args.dataset_type \in {"blender", "deepdeform", "owndataset"}
       THEN pc' = "check_times" /\ UNCHANGED outcome
       ELSE Finish("warn_unknown_dataset")
    /\ UNCHANGED <<files, dirExists, run, args, start, global_step, i, network_fn,
                   network_fine, optimizer, latents, writer>>
    /\ UNCHANGED histVars
    /\ UNCHANGED renderVars
    /\ UNCHANGED fnVars
    /\ UNCHANGED <<render_times, grads>>

\* train() lines 915-921: the assertions on the first and last training time
TimesAccepted(a) ==
    LET min_time == a.times[a.i_train[1]]
        max_time == a.times[a.i_train[Len(a.i_train)]]
    IN  CASE a.dataset_type = "blender" -> min_time = 0 /\ max_time = 1
          [] a.dataset_type = "deepdeform" -> min_time >= 0 /\ max_time <= 1
          [] OTHER -> TRUE

CheckTimes ==
    /\ pc = "check_times"
    /\ IF TimesAccepted(args)
       THEN pc' = "check_depth" /\ UNCHANGED outcome
       ELSE Finish("AssertionError")
    /\ UNCHANGED <<files, dirExists, run, args, start, global_step, i, network_fn,
                   network_fine, optimizer, latents, writer>>
    /\ UNCHANGED histVars
    /\ UNCHANGED renderVars
    /\ UNCHANGED fnVars
    /\ UNCHANGED <<render_times, grads>>

\* The configuration checks without the test for missing depth maps
DepthCheck_NoDepthGuard(a) ==
    IF a.depth_loss_type \notin {"mse", "gnll"} THEN "warn_depth_loss_type" ELSE "ok"

\* The configuration checks without the test of the depth-loss kind
DepthCheck_AnyLossType(a) ==
    IF ~HasDepthMaps(a) /\ comp_depth(a) THEN "warn_no_depth_maps" ELSE "ok"

\* train() lines 923-929: the two configuration checks, in this order
DepthCheck(a) ==
    IF a.depth_loss_type \notin {"mse", "gnll"} THEN "warn_depth_loss_type"
    ELSE IF ~HasDepthMaps(a) /\ comp_depth(a) THEN "warn_no_depth_maps"
    ELSE "ok"

CheckDepth ==
    /\ pc = "check_depth"
    /\ IF DepthCheck(args) = "ok"
       THEN pc' = "setup" /\ UNCHANGED outcome
       ELSE Finish(DepthCheck(args))
    /\ UNCHANGED <<files, dirExists, run, args, start, global_step, i, network_fn,
                   network_fine, optimizer, latents, writer>>
    /\ UNCHANGED histVars
    /\ UNCHANGED renderVars
    /\ UNCHANGED fnVars
    /\ UNCHANGED <<render_times, grads>>

\* train() lines 944-959: create the log directory, write args.txt, config.txt
SetupWrites(a) ==
    <<"makedirs", "args.txt">> \o (IF a.config THEN <<"config.txt">> ELSE << >>)

Setup ==
    /\ pc = "setup"
    /\ dirExists' = TRUE
    /\ files' = LET f1 == Put(files, ArgsTxt, [kind |-> "text"])
                IN  IF args.config THEN Put(f1, ConfigTxt, [kind |-> "text"]) ELSE f1
    /\ effects' = effects \o SetupWrites(args)
    /\ pc' = "create_nerf"
    /\ UNCHANGED <<run, args, outcome, start, global_step, i, network_fn,
                   network_fine, optimizer, latents, writer>>
    /\ UNCHANGED <<iterlog, trace, written, held, loaded>>
    /\ UNCHANGED renderVars
    /\ UNCHANGED fnVars
    /\ UNCHANGED <<render_times, exported, grads, applied>>

\* create_nerf() lines 417-428: what a loaded checkpoint sets
LoadCheckpoint(ckpt, cur_latents) ==
    [ start |-> ckpt.global_step,
      optimizer |-> ckpt.optimizer_state_dict,
      network_fn |-> ckpt.network_fn_state_dict,
      latents |-> RestoreLatents(cur_latents, ckpt.ray_bending_latent_codes) ]

\* The render trajectory's times as the loader returns them (lines 868-898,
\* the first at time 0, the others at time 1), or the test frames' times
\* under render_test (line 942)
LoadedRenderTimes(a) ==
    IF a.render_test
    THEN [ k \in 1..Len(a.i_test) |-> a.times[a.i_test[k]] ]
    ELSE [ k \in 1..a.n_render |-> IF k = 1 THEN 0 ELSE 1 ]

\* train() line 971: int(t * (len(ray_bending_latents_list) - 1)), as a
\* position of the list counted from 1
NearestLatent(t, n) == t * (n - 1) + 1

\* train() lines 971, 989-991: render_times.  With latent codes every entry
\* is a clone().detach() of the code of the nearest frame, taken from the
\* list `codes`; `frame` remembers which code was cloned.  Without latent
\* codes the entries are the scalar times.
RenderTimes(a, codes) ==
    [ k \in 1..Len(LoadedRenderTimes(a)) |->
        IF a.use_latent_codes_as_time
        THEN [ frame |-> NearestLatent(LoadedRenderTimes(a)[k], Len(codes)),
               code |-> codes[NearestLatent(LoadedRenderTimes(a)[k], Len(codes))] ]
        ELSE [ frame |-> 0, code |-> LoadedRenderTimes(a)[k] ] ]

\* What an export is recorded with: its caller, the times it rendered with
\* and the latent codes as they were at that moment
Export(by) == [ by |-> by, times |-> render_times, current |-> latents ]

\* train() lines 961-975 and create_nerf(): create the latent codes and the
\* export times, the networks and the optimizer, reload a checkpoint, set
\* global_step = start
CreateNerf ==
    /\ pc = "create_nerf"
    /\ render_times' = RenderTimes(args, InitLatents(args))
    /\ grads' = NoGrads(InitLatents(args))
    /\ LET latents0 == InitLatents(args)
           ckpts == Ckpts(args, files)
           ckpt_path == ckpts[Len(ckpts)]
       IN  IF args.use_two_models_for_fine
           THEN \* line 370 reads args.use_rigidty_network, which argparse never set
                /\ Finish("AttributeError")
                /\ latents' = latents0
                /\ UNCHANGED <<start, global_step, optimizer, network_fn, effects, loaded>>
           ELSE IF ~ShouldReload(args, ckpts)
           THEN /\ pc' = IF args.render_only THEN "render_only" ELSE "prepare"
                /\ latents' = latents0
                /\ start' = 0
                /\ global_step' = 0
                /\ UNCHANGED <<outcome, optimizer, network_fn, effects, loaded>>
           ELSE IF ckpt_path \notin DOMAIN files
           THEN /\ Finish("FileNotFoundError")
                /\ latents' = latents0
                /\ effects' = Append(effects, "torch.load")
                /\ UNCHANGED <<start, global_step, optimizer, network_fn, loaded>>
           ELSE IF files[ckpt_path].kind # "ckpt"
           THEN /\ Finish("UnpicklingError")
                /\ latents' = latents0
                /\ effects' = Append(effects, "torch.load")
                /\ UNCHANGED <<start, global_step, optimizer, network_fn, loaded>>
           ELSE LET got == LoadCheckpoint(files[ckpt_path], latents0)
                IN  /\ pc' = IF args.render_only THEN "render_only" ELSE "prepare"
                    /\ start' = got.start
                    /\ global_step' = got.start
                    /\ optimizer' = got.optimizer
                    /\ network_fn' = got.network_fn
                    /\ latents' = got.latents
                    /\ effects' = Append(effects, "torch.load")
                    /\ loaded' = ckpt_path
                    /\ UNCHANGED outcome
    /\ UNCHANGED <<files, dirExists, run, args, i, network_fine, writer>>
    /\ UNCHANGED <<iterlog, trace, written, held>>
    /\ UNCHANGED renderVars
    /\ UNCHANGED fnVars
    /\ UNCHANGED <<exported, applied>>

\* train() lines 940-942: the (pose, time) sequence render_path is given
RenderPoses(a) == IF a.render_test THEN Len(a.i_test) ELSE a.n_render

\* train() lines 1008-1016: the render-only output directory and its content
RenderOnlyOutput(a, step) ==
    [ RenderPath(RenderPoses(a), 0, a.render_test, a.render_test)
        EXCEPT !.videos = {"video.mp4", "video_depth.mp4"} ]

\* train() lines 993-1017: render-only mode
RenderOnly ==
    /\ pc = "render_only"
    /\ IF args.render_test /\ ~HasDepthMaps(args)
       THEN \* line 1000: depth_maps[i_test] with depth_maps = None
            /\ Finish("TypeError")
            /\ UNCHANGED <<files, effects, exported>>
       ELSE /\ Finish("render_only_return")
            /\ exported' = Append(exported, Export("render_only"))
            /\ files' = Put(files, RenderOnlyDir(args.render_test, start),
                            MergeDir(files, RenderOnlyDir(args.render_test, start),
                                     RenderOnlyOutput(args, start)))
            /\ effects' = effects \o <<"render_path", "mimwrite", "mimwrite">>
    /\ UNCHANGED <<dirExists, run, args, start, global_step, i, network_fn,
                   network_fine, optimizer, latents, writer>>
    /\ UNCHANGED <<iterlog, trace, written, held, loaded>>
    /\ UNCHANGED renderVars
    /\ UNCHANGED fnVars
    /\ UNCHANGED <<render_times, grads, applied>>

\* train() lines 1019-1056: prepare the training data, create the logging
\* sink, start = start + 1
Prepare ==
    /\ pc = "prepare"
    /\ writer' = TRUE
    /\ effects' = Append(effects, "SummaryWriter")
    /\ start' = start + 1
    /\ i' = start + 1
    /\ pc' = "loop"
    /\ UNCHANGED <<files, dirExists, run, args, outcome, global_step, network_fn,
                   network_fine, optimizer, latents>>
    /\ UNCHANGED <<iterlog, trace, written, held, loaded>>
    /\ UNCHANGED renderVars
    /\ UNCHANGED fnVars
    /\ UNCHANGED <<render_times, exported, grads, applied>>

\* The loop test that lets one more iteration through
LoopContinues_OneMore(a, k) == k <= a.N_iter + 1

\* train() lines 1050, 1057: for i in trange(start, N_iters), N_iters = N_iter + 1
LoopContinues(a, k) == k < a.N_iter + 1

LoopHead ==
    /\ pc = "loop"
    /\ IF LoopContinues(args, i)
       THEN pc' = "body" /\ UNCHANGED outcome
       ELSE Finish("completed")
    /\ UNCHANGED <<files, dirExists, run, args, start, global_step, i, network_fn,
                   network_fine, optimizer, latents, writer>>
    /\ UNCHANGED histVars
    /\ UNCHANGED renderVars
    /\ UNCHANGED fnVars
    /\ UNCHANGED <<render_times, grads>>

\* train() lines 1129-1214: the order of the operations of one optimization step
StepEvents == <<"render", "zero_grad", "backward", "clip_grad_value_",
                "optimizer.step", "lr">>

\* train() lines 1058-1214: sample one training image, render, optimize,
\* update the learning rate
TrainStep ==
    /\ pc = "body"
    /\ trace' = Append(trace, <<i, global_step>>)
    /\ IF use_batching(args)
       THEN \* line 1063
            /\ Finish("NotImplementedError")
            /\ iterlog' = << >>
            /\ UNCHANGED <<network_fn, optimizer, latents, effects, grads, applied>>
       ELSE \E k \in 1..Len(args.i_train), v \in args.grad_values :
              LET img_i == args.i_train[k]
                  cleared == ZeroGrad(grads)
                  computed == Backward(cleared, i, img_i, v, args.use_latent_codes_as_time)
                  clipped == ClipGrad(computed)
              IN  /\ grads' = clipped
                  /\ applied' = clipped
                  /\ network_fn' = network_fn + 1
                  /\ optimizer' = [ t |-> optimizer.t + 1,
                                     lr |-> new_lrate(args, global_step) ]
                  /\ latents' = IF args.use_latent_codes_as_time
                                THEN [latents EXCEPT ![img_i] = @ + 1]
                                ELSE latents
                  /\ iterlog' = StepEvents
                  /\ effects' = Append(effects, "optimizer.step")
                  /\ pc' = "i_weights"
                  /\ UNCHANGED outcome
    /\ UNCHANGED <<files, dirExists, run, args, start, global_step, i, network_fine, writer>>
    /\ UNCHANGED <<written, held, loaded>>
    /\ UNCHANGED renderVars
    /\ UNCHANGED fnVars
    /\ UNCHANGED <<render_times, exported>>

\* train() lines 1222, 1244, 1279, 1385, 1397: the gates of the periodic
\* side effects
WeightsDue(a, k) == k % a.i_weights = 0
PrintDue(a, k)   == k % a.i_print = 0
ImgDue(a, k)     == k % a.i_img = 0
VideoDue_ImgInterval(a, k) == k % a.i_img = 0
VideoDue(a, k)   == k % a.i_video = 0
TestsetDue(a, k) == k % a.i_testset = 0

\* The training state in memory, as the properties compare it
Snapshot ==
    [ i |-> i, global_step |-> global_step, network_fn |-> network_fn,
      network_fine |-> network_fine, optimizer |-> optimizer, latents |-> latents ]

\* train() lines 1221-1241: save a checkpoint
SaveCkpt ==
    /\ pc = "i_weights"
    /\ IF WeightsDue(args, i)
       THEN /\ files' = Put(files, CkptName(i), SaveDict)
            /\ iterlog' = Append(iterlog, "save")
            /\ effects' = Append(effects, "torch.save")
            /\ written' = IF CkptName(i) \in DOMAIN written
                          THEN written
                          ELSE Put(written, CkptName(i), SaveDict)
            /\ held' = Put(held, CkptName(i), Snapshot)
       ELSE UNCHANGED <<files, iterlog, effects, written, held>>
    /\ pc' = "i_print"
    /\ UNCHANGED <<dirExists, run, args, outcome, start, global_step, i, network_fn,
                   network_fine, optimizer, latents, writer>>
    /\ UNCHANGED <<trace, loaded>>
    /\ UNCHANGED renderVars
    /\ UNCHANGED fnVars
    /\ UNCHANGED <<render_times, exported, grads, applied>>

\* train() lines 1243-1264: console and scalar logging
LogPrint ==
    /\ pc = "i_print"
    /\ IF PrintDue(args, i)
       THEN /\ iterlog' = Append(iterlog, "print")
            /\ effects' = Append(effects, "add_scalar")
       ELSE UNCHANGED <<iterlog, effects>>
    /\ pc' = "i_img"
    /\ UNCHANGED <<files, dirExists, run, args, outcome, start, global_step, i,
                   network_fn, network_fine, optimizer, latents, writer>>
    /\ UNCHANGED <<trace, written, held, loaded>>
    /\ UNCHANGED renderVars
    /\ UNCHANGED fnVars
    /\ UNCHANGED <<render_times, exported, grads, applied>>

\* train() lines 1278-1382: render and log one training and one validation
\* image; every fifth time (DEBUG is True) dump the ray-debug pickle
LogImg ==
    /\ pc = "i_img"
    /\ IF ImgDue(args, i)
       THEN /\ iterlog' = Append(iterlog, "img")
            /\ effects' = Append(effects, "add_image")
            /\ files' = IF i % (5 * args.i_img) = 0
                        THEN Put(files, RayDebugFile(i), [kind |-> "pickle"])
                        ELSE files
       ELSE UNCHANGED <<iterlog, effects, files>>
    /\ pc' = "i_video"
    /\ UNCHANGED <<dirExists, run, args, outcome, start, global_step, i,
                   network_fn, network_fine, optimizer, latents, writer>>
    /\ UNCHANGED <<trace, written, held, loaded>>
    /\ UNCHANGED renderVars
    /\ UNCHANGED fnVars
    /\ UNCHANGED <<render_times, exported, grads, applied>>

\* train() lines 1384-1394: render the novel-view video
Video ==
    /\ pc = "i_video"
    /\ IF VideoDue(args, i)
       THEN /\ iterlog' = Append(iterlog, "video")
            /\ exported' = Append(exported, Export("video"))
            /\ effects' = effects \o <<"render_path", "mimwrite", "mimwrite">>
            /\ files' =
                 LET f1 == Put(files, FramesDir(args.expname, i),
                               MergeDir(files, FramesDir(args.expname, i),
                                        RenderPath(RenderPoses(args), 0, FALSE, FALSE)))
                     f2 == Put(f1, MovieRgb(args.expname, i), [kind |-> "video"])
                 IN  Put(f2, MovieDisp(args.expname, i), [kind |-> "video"])
       ELSE UNCHANGED <<iterlog, effects, files, exported>>
    /\ pc' = "i_testset"
    /\ UNCHANGED <<dirExists, run, args, outcome, start, global_step, i,
                   network_fn, network_fine, optimizer, latents, writer>>
    /\ UNCHANGED <<trace, written, held, loaded>>
    /\ UNCHANGED renderVars
    /\ UNCHANGED fnVars
    /\ UNCHANGED <<render_times, grads, applied>>

\* train() lines 1396-1408: re-render the test set
Testset ==
    /\ pc = "i_testset"
    /\ IF TestsetDue(args, i)
       THEN /\ iterlog' = Append(iterlog, "testset")
            /\ IF ~HasDepthMaps(args)
               THEN \* line 1407: depth_maps[i_test] with depth_maps = None
                    /\ Finish("TypeError")
                    /\ UNCHANGED <<effects, files>>
               ELSE /\ pc' = "incr"
                    /\ effects' = Append(effects, "render_path")
                    /\ files' = Put(files, TestsetDir(i),
                                    MergeDir(files, TestsetDir(i),
                                             RenderPath(Len(args.i_test), 0, TRUE, FALSE)))
                    /\ UNCHANGED outcome
       ELSE /\ pc' = "incr"
            /\ UNCHANGED <<iterlog, effects, files, outcome>>
    /\ UNCHANGED <<dirExists, run, args, start, global_step, i,
                   network_fn, network_fine, optimizer, latents, writer>>
    /\ UNCHANGED <<trace, written, held, loaded>>
    /\ UNCHANGED renderVars
    /\ UNCHANGED fnVars
    /\ UNCHANGED <<render_times, exported, grads, applied>>

\* The end of the loop body without line 1410
Incr_StepKept ==
    /\ pc = "incr"
    /\ global_step' = global_step
    /\ i' = i + 1
    /\ iterlog' = Append(iterlog, "global_step += 1")
    /\ pc' = "loop"
    /\ UNCHANGED <<files, dirExists, run, args, outcome, start, network_fn,
                   network_fine, optimizer, latents, writer>>
    /\ UNCHANGED <<effects, trace, written, held, loaded>>
    /\ UNCHANGED renderVars
    /\ UNCHANGED fnVars
    /\ UNCHANGED <<render_times, exported, grads, applied>>

\* train() line 1410 and the loop's next i
Incr ==
    /\ pc = "incr"
    /\ global_step' = global_step + 1
    /\ i' = i + 1
    /\ iterlog' = Append(iterlog, "global_step += 1")
    /\ pc' = "loop"
    /\ UNCHANGED <<files, dirExists, run, args, outcome, start, network_fn,
                   network_fine, optimizer, latents, writer>>
    /\ UNCHANGED <<effects, trace, written, held, loaded>>
    /\ UNCHANGED renderVars
    /\ UNCHANGED fnVars
    /\ UNCHANGED <<render_times, exported, grads, applied>>

\* The process exits; the experiment directory stays.
Exit ==
    /\ pc = "done"
    /\ FreshProcess
    /\ UNCHANGED <<files, dirExists, run, written, held>>
    /\ UNCHANGED renderVars
    /\ UNCHANGED fnVars

Steps ==
    \/ LoadData \/ CheckTimes \/ CheckDepth \/ Setup \/ CreateNerf
    \/ RenderOnly \/ Prepare \/ LoopHead \/ TrainStep
    \/ SaveCkpt \/ LogPrint \/ LogImg \/ Video \/ Testset \/ Incr \/ Exit

-----------------------------------------------------------------------------
(* render(), batchify_rays(), render_rays(): one render call                *)
(*                                                                         *)
(* A tensor is a sequence of rows and a row a sequence of cells.  A cell   *)
(* <<field, ray, k>> stands for the value of component k of `field` of     *)
(* that ray; ray 0 marks a value render() broadcasts to every ray.         *)

Cell(f, ray, k) == <<f, ray, k>>
Triple(f, ray) == << Cell(f, ray, 1), Cell(f, ray, 2), Cell(f, ray, 3) >>

\* Python's None where a tensor is expected
None == << Cell("None", 0, 0) >>

\* Python's s[a:b] for 0 <= a <= b: positions a .. b-1, cut at the end of s
Slice(s, a, b) == SubSeq(s, a + 1, IF b < Len(s) THEN b ELSE Len(s))

\* torch.cat(tensors, 0) of a list of tensors
RECURSIVE Cat(_)
Cat(list) == IF list = << >> THEN << >> ELSE Head(list) \o Cat(Tail(list))

\* The test dictionary that keeps the density noise of the train dictionary
RenderKwargsTest_KeepsNoise(kw) == [kw EXCEPT !.mode = "test", !.perturb = 0]

\* create_nerf() lines 450-452: render_kwargs_test, a copy of the entries of
\* render_kwargs_train with perturb = False and raw_noise_std = 0.
RenderKwargsTest(kw) ==
    [kw EXCEPT !.mode = "test", !.perturb = 0, !.raw_noise_std = 0]

\* create_nerf() lines 432-448 and train() lines 976-983: render_kwargs_train
\* for the options o; network_fn and network_fine are the network objects
RenderKwargsTrain(o) ==
    [ mode |-> "train",
      perturb |-> o.perturb,
      raw_noise_std |-> o.raw_noise_std,
      N_importance |-> o.N_importance,
      use_viewdirs |-> o.use_viewdirs,
      use_depth_guided_sampling |-> o.use_depth_guided_sampling,
      network_fn |-> "model",
      network_fine |-> "None" ]

\* The arguments of a render() call: the keyword dictionary, and N rays, the
\* ray-chunk size, a depth prior as third part of `rays`, the size of the
\* latent code (0: scalar time)
CallWith(kw, n, chunk, rays_depth, latent_size) ==
    [ mode |-> kw.mode, perturb |-> kw.perturb, raw_noise_std |-> kw.raw_noise_std,
      N_importance |-> kw.N_importance, use_viewdirs |-> kw.use_viewdirs,
      use_depth_guided_sampling |-> kw.use_depth_guided_sampling,
      network_fn |-> kw.network_fn, network_fine |-> kw.network_fine,
      N |-> n, chunk |-> chunk, rays_depth |-> rays_depth, latent_size |-> latent_size ]

\* The render options of the argument parser looked at
RenderOptions ==
    [ perturb : {0, 1}, raw_noise_std : {0, 1}, N_importance : {0, 1},
      use_viewdirs : BOOLEAN, use_depth_guided_sampling : BOOLEAN ]

\* The render() calls under render_kwargs_test, for every option but the
\* two that render_kwargs_test overrides
RenderCalls ==
    { CallWith(RenderKwargsTest(RenderKwargsTrain(o)), n, chunk, rd, ls) :
        o \in { x \in RenderOptions : x.perturb = 0 /\ x.raw_noise_std = 0 },
        n \in 1..MaxRays, chunk \in 1..MaxChunk, rd \in BOOLEAN,
        ls \in 0..MaxLatentSize }

\* Calls on two rays under both dictionaries, without and with a depth prior
RepeatCalls ==
    { CallWith(kw, 2, chunk, rd, 0) :
        kw \in UNION { { RenderKwargsTrain(o), RenderKwargsTest(RenderKwargsTrain(o)) }
                       : o \in { x \in RenderOptions : ~x.use_viewdirs } },
        chunk \in {1, 2}, rd \in BOOLEAN }

\* render_rays() line 617 and raw2outputs() lines 476-477: the random draws
\* made by the code of one coarse pass and of the final pass
StratifiedDraw(c) == IF c.perturb > 0 THEN <<"stratified_samples">> ELSE << >>
NoiseDraw(c) == IF c.raw_noise_std > 0 THEN <<"randn">> ELSE << >>

\* The random draws of the fine samplers: sample_pdf(det=(perturb==0.)),
\* sample_3sigma(..., perturb == 0., ...), compute_samples_around_depth(...,
\* perturb, ...) draw only when perturb is not 0
SamplerDraw(c) ==
    IF c.perturb = 0 THEN << >>
    ELSE IF ~c.use_depth_guided_sampling THEN <<"sample_pdf">>
    ELSE IF c.rays_depth THEN <<"compute_samples_around_depth", "sample_3sigma">>
    ELSE <<"compute_samples_around_depth">>

\* render_rays() lines 605-664: the random draws of one chunk, in order
RandomDraws(c) ==
    StratifiedDraw(c)
    \o (IF c.N_importance > 0 THEN NoiseDraw(c) \o SamplerDraw(c) ELSE << >>)
    \o NoiseDraw(c)

\* What a random generator may return, as far as the outputs tell it apart
RandomValues == {1, 2}

\* The outputs of a chunk computed with the random values u
Randomized(ret, u) ==
    [ key \in DOMAIN ret |->
        [ r \in 1..Len(ret[key]) |-> [ random |-> u, of |-> ret[key][r] ] ] ]

\* render() line 190: frame_time * torch.ones_like(rays_d[...,:1]); a scalar
\* time gives one column, a latent code of size L gives L columns
FrameTime(c) ==
    [ r \in 1..c.N |->
        IF c.latent_size = 0 THEN << Cell("time", 0, 1) >>
        ELSE [ j \in 1..c.latent_size |-> Cell("latent", 0, j) ] ]

\* render() lines 186-197: the record of every ray
RayRecords(c) ==
    [ r \in 1..c.N |->
        Triple("o", r) \o Triple("d", r)
        \o << Cell("near", 0, 1), Cell("far", 0, 1) >>
        \o FrameTime(c)[r]
        \o (IF c.use_viewdirs THEN Triple("viewdir", r) ELSE << >>)
        \o (IF c.rays_depth THEN Triple("depth", r) ELSE << >>) ]

\* render_rays() lines 594-600: the depth prior read from the record
DepthRange(row, use_viewdirs) ==
    IF use_viewdirs
    THEN IF Len(row) > 12 THEN Slice(row, 12, 15) ELSE None
    ELSE IF Len(row) > 9 THEN Slice(row, 9, 12) ELSE None

\* render_rays() lines 584-603: what is read from the record of one ray
ReadRecord(row, latent_code, c) ==
    [ rays_o |-> Slice(row, 0, 3),
      rays_d |-> Slice(row, 3, 6),
      near |-> Slice(row, 6, 9)[1],
      far |-> Slice(row, 6, 9)[2],
      frame_time |-> IF latent_code # None THEN latent_code ELSE << Slice(row, 6, 9)[3] >>,
      viewdirs |-> IF c.use_viewdirs THEN Slice(row, 9, 12) ELSE None,
      depth_range |-> DepthRange(row, c.use_viewdirs) ]

\* render_rays() lines 616, 636-648: with depth-guided fine sampling the
\* clamping bounds near[0, 0], far[0, 0] and the lower bound of the sampling
\* deviation (from z_coarse[0]) are taken from the first ray of the chunk
ChunkScalars(ray_batch, c) ==
    IF c.N_importance > 0 /\ c.use_depth_guided_sampling
    THEN << Slice(ray_batch[1], 6, 9)[1], Slice(ray_batch[1], 6, 9)[2] >>
    ELSE None

\* The keys of the dictionary render_rays() returns (lines 687-695)
RetKeys == {"rgb_map", "disp_map", "acc_map", "depth_map", "depth_std_map",
            "z_vals", "position_delta"}

\* Sampling, network query and integration for one ray: the value of output
\* `key` as a term over everything it is computed from
RayOutput(key, read, scalars) == [ key |-> key, read |-> read, scalars |-> scalars ]

\* render_rays() lines 525-714 for one chunk: key -> one value per ray
render_rays(ray_batch, ray_bending_latent_codes, c) ==
    [ key \in RetKeys |->
        [ r \in 1..Len(ray_batch) |->
            RayOutput(key,
                      ReadRecord(ray_batch[r],
                                 IF ray_bending_latent_codes # None
                                 THEN ray_bending_latent_codes[r] ELSE None,
                                 c),
                      ChunkScalars(ray_batch, c)) ] ]

\* batchify_rays() lines 118-119 with the slices starting at the first ray
ChunkOf_FromStart(t, k, chunk) == Slice(t, 0, chunk)

\* batchify_rays() lines 118-119: rays_flat[i:i+chunk]
ChunkOf(t, k, chunk) == Slice(t, k, k + chunk)

\* render() lines 200-202: the latent codes handed to batchify_rays()
LatentCodes(c) == IF c.latent_size > 0 THEN FrameTime(c) ELSE None

\* A caller invokes render()
RenderStart(Calls) ==
    /\ rpc = "idle"
    /\ \E c \in Calls : rcall' = c
    /\ rpc' = "render"
    /\ UNCHANGED <<rays, offset, all_ret, chunks, draws, prev>>
    /\ UNCHANGED procVars
    /\ UNCHANGED fnVars
    /\ UNCHANGED histVars

\* render() lines 161-197: assemble the ray batch
RenderCat ==
    /\ rpc = "render"
    /\ rays' = RayRecords(rcall)
    /\ offset' = 0
    /\ all_ret' = [ key \in RetKeys |-> << >> ]
    /\ chunks' = << >>
    /\ draws' = << >>
    /\ rpc' = "batchify"
    /\ UNCHANGED <<rcall, prev>>
    /\ UNCHANGED procVars
    /\ UNCHANGED fnVars
    /\ UNCHANGED histVars

\* batchify_rays() lines 117-124: one pass of the loop over the chunks
BatchifyChunk ==
    /\ rpc = "batchify"
    /\ offset < Len(rays)
    /\ LET relevant_rblc == IF LatentCodes(rcall) # None
                            THEN ChunkOf(LatentCodes(rcall), offset, rcall.chunk)
                            ELSE None
           computed == render_rays(ChunkOf(rays, offset, rcall.chunk), relevant_rblc, rcall)
       IN  \E u \in IF RandomDraws(rcall) = << >> THEN {0} ELSE RandomValues :
             LET ret == IF RandomDraws(rcall) = << >> THEN computed
                        ELSE Randomized(computed, u)
             IN  all_ret' = [ key \in RetKeys |-> Append(all_ret[key], ret[key]) ]
    /\ draws' = draws \o RandomDraws(rcall)
    /\ chunks' = Append(chunks, offset)
    /\ offset' = offset + rcall.chunk
    /\ UNCHANGED <<rcall, rpc, rays, prev>>
    /\ UNCHANGED procVars
    /\ UNCHANGED fnVars
    /\ UNCHANGED histVars

\* batchify_rays() lines 126-129: concatenate the per-chunk results
BatchifyCat ==
    /\ rpc = "batchify"
    /\ offset >= Len(rays)
    /\ all_ret' = [ key \in RetKeys |-> Cat(all_ret[key]) ]
    /\ rpc' = "return"
    /\ UNCHANGED <<rcall, rays, offset, chunks, draws, prev>>
    /\ UNCHANGED procVars
    /\ UNCHANGED fnVars
    /\ UNCHANGED histVars

\* render() lines 203-218: hand the results back.  `remember` tells whether
\* the history keeps the call and its result for the next call to be
\* compared with.
RenderEnd(remember) ==
    /\ rpc = "return"
    /\ rcall' = [mode |-> "none"]
    /\ rpc' = "idle"
    /\ rays' = << >>
    /\ offset' = 0
    /\ all_ret' = << >>
    /\ chunks' = << >>
    /\ draws' = << >>
    /\ prev' = IF remember THEN [call |-> rcall, ret |-> all_ret] ELSE prev
    /\ UNCHANGED procVars
    /\ UNCHANGED fnVars
    /\ UNCHANGED histVars

-----------------------------------------------------------------------------
(* render_path(): one call, frame by frame *)

\* The calls of render_path() looked at: n (pose, time) pairs, a base offset,
\* with or without a save directory; ground truth is saved only into a save
\* directory (train() line 1001 is the only caller that sets save_also_gt).
PathCalls ==
    [ n : 0..MaxRenderPoses, i_offset : 0..MaxOffset,
      savedir : BOOLEAN, save_also_gt : {FALSE} ]
    \cup [ n : 0..MaxRenderPoses, i_offset : 0..MaxOffset,
           savedir : {TRUE}, save_also_gt : {TRUE} ]

\* render_path() lines 221-263: entry, the empty result lists
PathCall ==
    /\ ppc = "idle"
    /\ \E c \in PathCalls : pcall' = c
    /\ ppc' = "loop"
    /\ frame' = 0
    /\ rgbs' = << >>
    /\ disps' = << >>
    /\ depths' = << >>
    /\ rgbs_gt' = << >>
    /\ imwrites' = << >>
    /\ metrics' = << >>
    /\ pret' = [kind |-> "none"]
    /\ UNCHANGED <<procVars, histVars, renderVars, rawVars, iterVars, stratVars, selVars>>

\* render_path() lines 273-279: the two frames written for input k
EstimWrites(c, k) ==
    IF c.savedir
    THEN << <<"estim", FrameName(k, c.i_offset)>>,
            <<"estim_depth", FrameName(k, c.i_offset)>> >>
    ELSE << >>

\* render_path() lines 281-294: the two ground-truth frames written for input k
GtWrites(c, k) ==
    IF c.save_also_gt
    THEN << <<"gt", FrameName(k, c.i_offset)>>,
            <<"gt_depth", FrameName(k, c.i_offset)>> >>
    ELSE << >>

\* render_path() lines 265-294: one turn of the loop over zip(poses, times)
PathFrame ==
    /\ ppc = "loop"
    /\ frame < pcall.n
    /\ rgbs' = Append(rgbs, frame)
    /\ disps' = Append(disps, frame)
    /\ depths' = Append(depths, frame)
    /\ rgbs_gt' = IF pcall.save_also_gt THEN Append(rgbs_gt, frame) ELSE rgbs_gt
    /\ imwrites' = imwrites \o EstimWrites(pcall, frame) \o GtWrites(pcall, frame)
    /\ frame' = frame + 1
    /\ UNCHANGED <<pcall, ppc, metrics, pret>>
    /\ UNCHANGED <<procVars, histVars, renderVars, rawVars, iterVars, stratVars, selVars>>

\* render_path() lines 296-307: np.stack of the result lists (ValueError for
\* an empty list), compute_metrics under save_also_gt, return
PathStack ==
    /\ ppc = "loop"
    /\ frame = pcall.n
    /\ IF rgbs = << >>
       THEN /\ pret' = [kind |-> "raise", error |-> "ValueError"]
            /\ ppc' = "raised"
            /\ UNCHANGED metrics
       ELSE /\ metrics' = IF pcall.save_also_gt
                           THEN Append(metrics, [rgbs |-> rgbs, rgbs_gt |-> rgbs_gt])
                           ELSE metrics
            /\ pret' = [kind |-> "return", rgbs |-> rgbs, disps |-> disps,
                        depths |-> depths]
            /\ ppc' = "return"
    /\ UNCHANGED <<pcall, frame, rgbs, disps, depths, rgbs_gt, imwrites>>
    /\ UNCHANGED <<procVars, histVars, renderVars, rawVars, iterVars, stratVars, selVars>>

\* The caller takes the result (or the exception) and the call is over
PathReturn ==
    /\ ppc \in {"return", "raised"}
    /\ pcall' = [n |-> 0]
    /\ ppc' = "idle"
    /\ frame' = 0
    /\ rgbs' = << >>
    /\ disps' = << >>
    /\ depths' = << >>
    /\ rgbs_gt' = << >>
    /\ imwrites' = << >>
    /\ metrics' = << >>
    /\ pret' = [kind |-> "none"]
    /\ UNCHANGED <<procVars, histVars, renderVars, rawVars, iterVars, stratVars, selVars>>

-----------------------------------------------------------------------------
(* raw2outputs(): compositing along one ray, in exact arithmetic            *)
(*                                                                         *)
(* A quantity is a polynomial in e = 1e-10, the constant of line 488, kept *)
(* as the sequence of its integer coefficients (constant term first) over  *)
(* a power of two: an alpha value is a number of halves (0, 1 or 2), and   *)
(* for a ray of n samples the weights, acc_map and depth_map are over 2^n  *)
(* and the radicand of depth_std_map is over 2^(3n).                       *)

RECURSIVE SumSeq(_)
SumSeq(q) == IF q = << >> THEN 0 ELSE Head(q) + SumSeq(Tail(q))

Coef(q, k) == IF k \in 1..Len(q) THEN q[k] ELSE 0

PAdd(q, r) ==
    [ k \in 1..(IF Len(q) > Len(r) THEN Len(q) ELSE Len(r)) |-> Coef(q, k) + Coef(r, k) ]

PScale(c, q) == [ k \in 1..Len(q) |-> c * q[k] ]

PMul(q, r) ==
    [ k \in 1..(Len(q) + Len(r) - 1) |->
        SumSeq([ j \in 1..Len(q) |-> q[j] * Coef(r, k - j + 1) ]) ]

RECURSIVE PSum(_)
PSum(list) == IF list = << >> THEN <<0>> ELSE PAdd(Head(list), PSum(Tail(list)))

RECURSIVE Pow2(_)
Pow2(n) == IF n = 0 THEN 1 ELSE 2 * Pow2(n - 1)

\* The factor with the opacity in place of the transparency
Transmittance_Opaque(a) == << a, 2 >>

\* raw2outputs() line 488: 1. - alpha + 1e-10, over 2
Transmittance(a) == << 2 - a, 2 >>

\* raw2outputs() line 488: torch.cumprod(torch.cat([ones, 1.-alpha + 1e-10]))
\* [:, :-1] at position i, the product of the factors before i, over 2^(i-1)
RECURSIVE ExclusiveCumprod(_, _)
ExclusiveCumprod(alpha, k) ==
    IF k = 1 THEN <<1>>
    ELSE PMul(ExclusiveCumprod(alpha, k - 1), Transmittance(alpha[k - 1]))

\* raw2outputs() line 488: weights = alpha * cumprod, over 2^n
Weights(alpha) ==
    [ k \in 1..Len(alpha) |->
        PScale(alpha[k] * Pow2(Len(alpha) - k), ExclusiveCumprod(alpha, k)) ]

\* raw2outputs() line 495: depth_map = torch.sum(weights * z_vals, -1), over 2^n
DepthMap(w, z_vals) == PSum([ k \in 1..Len(w) |-> PScale(z_vals[k], w[k]) ])

\* raw2outputs() line 498: acc_map = torch.sum(weights, -1), over 2^n
AccMap(w) == PSum(w)

\* raw2outputs() line 496: depth_std_map =
\* (((z_vals - depth_map).pow(2) * weights).sum(-1) + 1e-6).sqrt(), kept as
\* the radicand: the weighted sum over 2^(3n), plus `plus` times 1e-6
DepthStdMap(w, z_vals, depth) ==
    LET d == Pow2(Len(w))
        dev(k) == PAdd(<<z_vals[k] * d>>, PScale(-1, depth))
    IN  [ radicand |-> PSum([ k \in 1..Len(w) |-> PMul(PMul(dev(k), dev(k)), w[k]) ]),
          plus |-> 1 ]

\* The rays looked at: up to MaxSamples samples at increasing depths 1, 2, ...
\* with any alpha values among 0, 1/2 and 1
RawCalls ==
    UNION { [ alpha : [1..n -> {0, 1, 2}], z_vals : {[ k \in 1..n |-> k ]} ]
            : n \in 1..MaxSamples }

\* raw2outputs() lines 470-486: entry; alpha is computed from the densities
RawCall ==
    /\ rawpc = "idle"
    /\ \E c \in RawCalls : rawcall' = c
    /\ rawpc' = "weights"
    /\ UNCHANGED <<weights, acc_map, depth_map, depth_std_map>>
    /\ UNCHANGED <<procVars, histVars, renderVars, pathVars, iterVars, stratVars, selVars>>

\* raw2outputs() line 488
RawWeights ==
    /\ rawpc = "weights"
    /\ weights' = Weights(rawcall.alpha)
    /\ rawpc' = "maps"
    /\ UNCHANGED <<rawcall, acc_map, depth_map, depth_std_map>>
    /\ UNCHANGED <<procVars, histVars, renderVars, pathVars, iterVars, stratVars, selVars>>

\* raw2outputs() lines 495-498
RawMaps ==
    /\ rawpc = "maps"
    /\ depth_map' = DepthMap(weights, rawcall.z_vals)
    /\ depth_std_map' = DepthStdMap(weights, rawcall.z_vals,
                                    DepthMap(weights, rawcall.z_vals))
    /\ acc_map' = AccMap(weights)
    /\ rawpc' = "return"
    /\ UNCHANGED <<rawcall, weights>>
    /\ UNCHANGED <<procVars, histVars, renderVars, pathVars, iterVars, stratVars, selVars>>

\* raw2outputs() line 504: return
RawReturn ==
    /\ rawpc = "return"
    /\ rawcall' = [alpha |-> << >>, z_vals |-> << >>]
    /\ rawpc' = "idle"
    /\ weights' = << >>
    /\ acc_map' = << >>
    /\ depth_map' = << >>
    /\ depth_std_map' = [radicand |-> << >>, plus |-> 0]
    /\ UNCHANGED <<procVars, histVars, renderVars, pathVars, iterVars, stratVars, selVars>>

-----------------------------------------------------------------------------
(* train() lines 1058-1175: the ray batch and the renders of one iteration *)
(*                                                                         *)
(* Frames are numbered from 1: Python's img_i is the frame number minus    *)
(* one.  A pixel is <<row, column>>, numbered from 0 as in the code.  A    *)
(* time is an integer, a perturbed time is kept in halves.                 *)

\* Python's int() of a non-negative quotient a / b
Floor(a, b) == a \div b

\* train() line 1083 with a smallest prefix of five frames
max_sample_Five(skip_factor) == IF skip_factor > 5 THEN skip_factor ELSE 5

\* train() line 1083: max_sample = max(int(skip_factor), 3)
max_sample(skip_factor) == IF skip_factor > 3 THEN skip_factor ELSE 3

\* train() line 1082: int(i / float(precrop_iters_time) * len(i_train)).  The
\* quotient is rounded to a double before it is multiplied, so where the
\* exact product is a whole number the double may lie just below it (for
\* 3 / 11.0 * 55 it does): both outcomes are possible.
SkipFactors(k, precrop_iters_time, n) ==
    LET exact == Floor(k * n, precrop_iters_time)
    IN  IF (k * n) % precrop_iters_time = 0 /\ exact > 0
        THEN {exact - 1, exact} ELSE {exact}

\* Python's s[:n]
Prefix(s, n) == SubSeq(s, 1, IF n < Len(s) THEN n ELSE Len(s))

\* train() lines 1079-1084: the lists np.random.choice may draw the image from
ImagePools(c) ==
    IF c.i >= c.precrop_iters_time THEN { c.i_train }
    ELSE { Prefix(c.i_train, max_sample(sf))
           : sf \in SkipFactors(c.i, c.precrop_iters_time, Len(c.i_train)) }

\* train() lines 1099-1100: dH = int(H//2 * precrop_frac), precrop_frac kept
\* as the fraction frac[1] / frac[2]
CropHalf(side, frac) == Floor((side \div 2) * frac[1], frac[2])

\* torch.linspace(a, b, n) for b = a + n - 1: the n whole numbers a .. b
Linspace(a, b, n) == [ k \in 1..n |-> a + k - 1 ]

\* torch.reshape(torch.stack(torch.meshgrid(rows, cols, indexing="ij"), -1),
\* [-1, 2]): every pair, row by row
Meshgrid(rows, cols) ==
    [ k \in 1..(Len(rows) * Len(cols)) |->
        << rows[((k - 1) \div Len(cols)) + 1], cols[((k - 1) % Len(cols)) + 1] >> ]

\* train() lines 1098-1111: the candidate pixels of the iteration
Coords(c) ==
    IF c.i < c.precrop_iters
    THEN LET dH == CropHalf(c.H, c.precrop_frac)
             dW == CropHalf(c.W, c.precrop_frac)
         IN  Meshgrid(Linspace((c.H \div 2) - dH, (c.H \div 2) + dH - 1, 2 * dH),
                      Linspace((c.W \div 2) - dW, (c.W \div 2) + dW - 1, 2 * dW))
    ELSE Meshgrid(Linspace(0, c.H - 1, c.H), Linspace(0, c.W - 1, c.W))

\* np.random.choice(n, size=[k], replace=True): any k indices
Choice_WithReplacement(n, k) == [1..k -> 1..n]

\* train() line 1112: np.random.choice(n, size=[k], replace=False): the
\* possible results, k pairwise different indices in any order; none when
\* k > n (numpy raises ValueError)
Choice(n, k) ==
    { s \in [1..k -> 1..n] : \A a, b \in 1..k : a # b => s[a] # s[b] }

\* The keys of the coarse pass (render_rays() lines 694-705)
CoarseKeys == {"rgb0", "disp0", "acc0", "depth0", "depthstd0", "position_delta_0"}

\* render_rays() with the coarse outputs whenever N_importance > 0
RenderRaysKeys_AlwaysCoarse(c, z_vals_given, retraw) ==
    RetKeys
    \cup (IF retraw THEN {"raw"} ELSE {})
    \cup (IF c.N_importance > 0 THEN CoarseKeys ELSE {})

\* render_rays() lines 605-707: the keys of the dictionary it returns.  The
\* coarse pass runs only when no z_vals were handed in (line 605), and keeps
\* its outputs only with a separate coarse network (lines 622-630); z_samples
\* is never assigned, so 'z_std' is never added.
RenderRaysKeys(c, z_vals_given, retraw) ==
    RetKeys
    \cup (IF retraw THEN {"raw"} ELSE {})
    \cup (IF c.N_importance > 0 /\ ~z_vals_given /\ c.use_two_models_for_fine
          THEN CoarseKeys ELSE {})

\* render() lines 215-218: the four maps are returned apart, the rest is extras
k_extract == {"rgb_map", "disp_map", "acc_map", "depth_map"}

\* batchify_rays() line 117: the number of rays of every chunk, in order
ChunkSizes(N, chunk) ==
    [ j \in 1..((N + chunk - 1) \div chunk) |->
        IF j * chunk <= N THEN chunk ELSE N - (j - 1) * chunk ]

\* torch broadcasting of the leading dimension: the number of rows of the
\* result, or -1 where the two sizes do not match (RuntimeError)
BroadcastRows(a, b) ==
    IF a = b THEN a ELSE IF a = 1 THEN b ELSE IF b = 1 THEN a ELSE -1

\* render_rays() line 661 for one chunk of n rays: z_vals is the keyword
\* argument as render() received it, which batchify_rays() hands on whole
\* (line 119 slices rays_flat and the latent codes only); z_rows = 0 stands
\* for z_vals = None, where z_vals has a row per ray of the chunk
ChunkRows(n, z_rows) == IF z_rows = 0 THEN n ELSE BroadcastRows(n, z_rows)

\* batchify_rays() and render() lines 203-206: whether the call raises
\* RuntimeError, in a chunk or in the final reshape to the N rays
RenderRaises(N, chunk, z_rows) ==
    LET rows == [ j \in DOMAIN ChunkSizes(N, chunk) |->
                    ChunkRows(ChunkSizes(N, chunk)[j], z_rows) ]
    IN  \/ \E j \in DOMAIN rows : rows[j] = -1
        \/ SumSeq(rows) # N

\* train() lines 1137-1138: the frame before and the frame after img_i in
\* `times`, which holds every frame of the capture; 0 stands for None
frame_time_prev(c, img) == IF img > 1 THEN img - 1 ELSE 0
frame_time_next(c, img) == IF img < Len(c.times) THEN img + 1 ELSE 0

\* train() lines 1140-1144: the directions left after the coin is tossed
Directions(c, img) ==
    IF frame_time_prev(c, img) # 0 /\ frame_time_next(c, img) # 0
    THEN {"prev", "next"}
    ELSE IF frame_time_prev(c, img) # 0 THEN {"prev"}
    ELSE IF frame_time_next(c, img) # 0 THEN {"next"}
    ELSE {}

\* train() lines 1147 and 1153, in halves; u is torch.rand(1)[0] in halves
rand_time_prev(t_prev, t, u) == 2 * t_prev + (t - t_prev) * u
rand_time_next(t, t_next, u) == 2 * t + (t_next - t) * u

\* torch.rand(1)[0] lies in [0, 1): the values looked at, in halves
RandHalves == {0, 1}

\* The single iterations looked at: image and pixel sampling with and
\* without the two warm-up windows, and the temporal-smoothness renders
\* under every sampling configuration
SampleCalls ==
    { [ i |-> k, precrop_iters_time |-> p, i_train |-> [ j \in 1..n |-> j ],
        times |-> [ j \in 1..(n + 1) |-> j - 1 ],
        H |-> hw[1], W |-> hw[2], N_rand |-> nr, precrop_iters |-> crop[1],
        precrop_frac |-> crop[2], add_tv_loss |-> FALSE, N_importance |-> 0,
        use_two_models_for_fine |-> FALSE, chunk |-> MaxChunk ]
      : k \in 1..MaxFrames, p \in {0, MaxFrames}, n \in {2, MaxFrames},
        hw \in { <<1, 1>>, <<2, 2>>, <<MaxSide, 2>> }, nr \in 1..MaxBatch,
        crop \in { <<0, <<1, 2>>>>, <<MaxFrames + 1, <<1, 2>>>>,
                   <<MaxFrames + 1, <<1, 1>>>> } }

TvCalls ==
    { [ i |-> 1, precrop_iters_time |-> 0, i_train |-> [ j \in 1..n |-> j ],
        times |-> [ j \in 1..(n + v) |-> IF j <= n THEN j - 1 ELSE j - 1 - n ],
        H |-> 2, W |-> 2, N_rand |-> nr, precrop_iters |-> 0,
        precrop_frac |-> <<1, 2>>, add_tv_loss |-> tv, N_importance |-> ni,
        use_two_models_for_fine |-> two, chunk |-> ch ]
      : n \in 1..3, v \in 0..1, nr \in 1..MaxBatch, tv \in BOOLEAN, ni \in 0..1,
        two \in BOOLEAN, ch \in 1..MaxChunk }

IterCalls == SampleCalls \cup TvCalls

\* train() line 1057: the body of the loop is entered
IterCall ==
    /\ ipc = "idle"
    /\ \E c \in IterCalls : icall' = c
    /\ ipc' = "image"
    /\ UNCHANGED <<img_idx, select_coords, extras, rerenders, tv_loss, iret>>
    /\ UNCHANGED <<procVars, histVars, renderVars, pathVars, rawVars, stratVars, selVars>>

\* train() lines 1078-1093: the training image of the iteration
SampleImage ==
    /\ ipc = "image"
    /\ \E pool \in ImagePools(icall) : \E k \in 1..Len(pool) : img_idx' = pool[k]
    /\ ipc' = "pixels"
    /\ UNCHANGED <<icall, select_coords, extras, rerenders, tv_loss, iret>>
    /\ UNCHANGED <<procVars, histVars, renderVars, pathVars, rawVars, stratVars, selVars>>

\* train() lines 1095-1126: the pixels of the ray batch
SelectPixels ==
    /\ ipc = "pixels"
    /\ LET coords == Coords(icall)
           select_inds == Choice(Len(coords), icall.N_rand)
       IN  IF select_inds = {}
           THEN /\ iret' = "ValueError"
                /\ ipc' = "done"
                /\ UNCHANGED select_coords
           ELSE /\ \E s \in select_inds :
                      select_coords' = [ k \in 1..icall.N_rand |-> coords[s[k]] ]
                /\ ipc' = "render"
                /\ UNCHANGED iret
    /\ UNCHANGED <<icall, img_idx, extras, rerenders, tv_loss>>
    /\ UNCHANGED <<procVars, histVars, renderVars, pathVars, rawVars, stratVars, selVars>>

\* train() lines 1129-1134: the render of the ray batch at the frame's time
MainRender ==
    /\ ipc = "render"
    /\ extras' = RenderRaysKeys(icall, FALSE, TRUE) \ k_extract
    /\ ipc' = IF icall.add_tv_loss THEN "tv" ELSE "loss"
    /\ UNCHANGED <<icall, img_idx, select_coords, rerenders, tv_loss, iret>>
    /\ UNCHANGED <<procVars, histVars, renderVars, pathVars, rawVars, stratVars, selVars>>

\* train() lines 1136-1156: the render at a perturbed time, with the z_vals
\* of the first render as keyword argument
TvRender ==
    /\ ipc = "tv"
    /\ IF Directions(icall, img_idx) = {}
       THEN /\ ipc' = "loss"
            /\ UNCHANGED <<rerenders, iret>>
       ELSE \E dir \in Directions(icall, img_idx), u \in RandHalves :
              LET nb == IF dir = "prev" THEN frame_time_prev(icall, img_idx)
                        ELSE frame_time_next(icall, img_idx)
                  t == icall.times[img_idx]
                  rt == IF dir = "prev" THEN rand_time_prev(icall.times[nb], t, u)
                        ELSE rand_time_next(t, icall.times[nb], u)
              IN  IF RenderRaises(icall.N_rand, icall.chunk, icall.N_rand)
                  THEN /\ iret' = "RuntimeError"
                       /\ ipc' = "done"
                       /\ UNCHANGED rerenders
                  ELSE /\ rerenders' = Append(rerenders,
                              [ toward |-> dir, neighbour |-> nb, frame_time |-> rt,
                                z_vals |-> "extras['z_vals']",
                                extras |-> RenderRaysKeys(icall, TRUE, TRUE) \ k_extract ])
                       /\ ipc' = "loss"
                       /\ UNCHANGED iret
    /\ UNCHANGED <<icall, img_idx, select_coords, extras, tv_loss>>
    /\ UNCHANGED <<procVars, histVars, renderVars, pathVars, rawVars, stratVars, selVars>>

\* train() lines 1165-1175: the keys the temporal-smoothness loss reads from
\* both dictionaries
TvTerms(c, ex) ==
    IF ~c.add_tv_loss THEN << >>
    ELSE <<"position_delta">>
         \o (IF "position_delta_0" \in ex THEN <<"position_delta_0">> ELSE << >>)

\* train() lines 1158-1186: the losses of the iteration
Losses ==
    /\ ipc = "loss"
    /\ IF rerenders = << >>
       THEN /\ tv_loss' = << >>
            /\ iret' = "ok"
       ELSE LET terms == TvTerms(icall, extras)
            IN  IF \A k \in DOMAIN terms : terms[k] \in rerenders[1].extras
                THEN /\ tv_loss' = terms
                     /\ iret' = "ok"
                ELSE /\ tv_loss' = << >>
                     /\ iret' = "KeyError"
    /\ ipc' = "done"
    /\ UNCHANGED <<icall, img_idx, select_coords, extras, rerenders>>
    /\ UNCHANGED <<procVars, histVars, renderVars, pathVars, rawVars, stratVars, selVars>>

\* the iteration is over: by line 1410 or by an exception
IterReturn ==
    /\ ipc = "done"
    /\ icall' = [i |-> 0]
    /\ ipc' = "idle"
    /\ img_idx' = 0
    /\ select_coords' = << >>
    /\ extras' = {}
    /\ rerenders' = << >>
    /\ tv_loss' = << >>
    /\ iret' = "none"
    /\ UNCHANGED <<procVars, histVars, renderVars, pathVars, rawVars, stratVars, selVars>>

-----------------------------------------------------------------------------
(* stratified_samples() and its call in render_rays(): one ray              *)
(*                                                                         *)
(* A depth is a whole number; midpoints are kept in halves, a random       *)
(* offset in halves (RandHalves), a perturbed depth in quarters.           *)

\* stratified_samples() line 509 without the factor .5
Mids_NoHalf(z) == [ k \in 1..(Len(z) - 1) |-> 2 * (z[k + 1] + z[k]) ]

\* stratified_samples() line 509: mids = .5 * (z_vals[1:] + z_vals[:-1]),
\* in halves
Mids(z) == [ k \in 1..(Len(z) - 1) |-> z[k + 1] + z[k] ]

\* stratified_samples() lines 510-511, in halves
Upper(z) == Mids(z) \o << 2 * z[Len(z)] >>
Lower(z) == << 2 * z[1] >> \o Mids(z)

\* stratified_samples() lines 507-522: lower + (upper - lower) * t_rand, in
\* quarters
stratified_samples(z, t_rand) ==
    [ k \in 1..Len(z) |-> 2 * Lower(z)[k] + (Upper(z)[k] - Lower(z)[k]) * t_rand[k] ]

\* The rays looked at: every strictly increasing sequence of two or more
\* depths, which covers linear and inverse-linear spacing (render_rays()
\* lines 607-612), with perturb 0 and 1
StratCalls ==
    { c \in UNION { [ z_coarse : [1..n -> 0..MaxDepth], perturb : {0, 1} ]
                    : n \in 2..MaxSamples } :
        \A k \in 1..(Len(c.z_coarse) - 1) : c.z_coarse[k] < c.z_coarse[k + 1] }

\* render_rays() lines 605-612: the coarse depths of the ray
StratCall ==
    /\ spc = "idle"
    /\ \E c \in StratCalls : scall' = c
    /\ spc' = "perturb"
    /\ UNCHANGED z_strat
    /\ UNCHANGED <<procVars, histVars, renderVars, pathVars, rawVars, iterVars, selVars>>

\* render_rays() line 617: z_coarse = stratified_samples(z_coarse) if
\* perturb > 0. else z_coarse; t_rand = torch.rand(z_vals.shape)
Stratify ==
    /\ spc = "perturb"
    /\ IF scall.perturb > 0
       THEN \E t_rand \in [1..Len(scall.z_coarse) -> RandHalves] :
               z_strat' = stratified_samples(scall.z_coarse, t_rand)
       ELSE z_strat' = [ k \in 1..Len(scall.z_coarse) |-> 4 * scall.z_coarse[k] ]
    /\ spc' = "done"
    /\ UNCHANGED scall
    /\ UNCHANGED <<procVars, histVars, renderVars, pathVars, rawVars, iterVars, selVars>>

\* the depths go on to the network query (line 619)
StratReturn ==
    /\ spc = "done"
    /\ scall' = [perturb |-> 0]
    /\ spc' = "idle"
    /\ z_strat' = << >>
    /\ UNCHANGED <<procVars, histVars, renderVars, pathVars, rawVars, iterVars, selVars>>

-----------------------------------------------------------------------------
(* The checkpoints a run leaves behind, and the choice among them by        *)
(* create_nerf() at the next start                                          *)

\* 10^n
RECURSIVE TenTo(_)
TenTo(n) == IF n = 0 THEN 1 ELSE 10 * TenTo(n - 1)

\* The runs looked at: budgets N_iter from a tenth of to twice the first
\* step with MaxDigits digits, saving every i_weights iterations
SavedRuns ==
    [ N_iter : { k * TenTo(MaxDigits - 2) : k \in 1..20 },
      i_weights : { k * TenTo(MaxDigits - 2) : k \in {1, 2, 5} } ]

\* train() lines 1057, 1222-1240: the files a run from scratch leaves in
\* the experiment directory, <i:06d>.tar for every i in 1..N_iter with
\* i % i_weights = 0, each holding global_step = i
SavedBy(r) ==
    LET saved == { k * r.i_weights : k \in 1..(r.N_iter \div r.i_weights) }
    IN  [ name \in { CkptName(k) : k \in saved } |->
            [ kind |-> "ckpt",
              global_step |-> CHOOSE k \in saved : CkptName(k) = name ] ]

\* a run has trained to its budget and left its checkpoints behind
SelCall ==
    /\ selpc = "idle"
    /\ \E r \in SavedRuns : selcall' = r /\ ckpt_dir' = SavedBy(r)
    /\ selpc' = "create_nerf"
    /\ UNCHANGED chosen_path
    /\ UNCHANGED <<procVars, histVars, renderVars, pathVars, rawVars, iterVars, stratVars>>

\* create_nerf() lines 401-417 with no fine-tune path and reload allowed:
\* ckpt_path = ckpts[-1] of the sorted listing
SelLoad ==
    /\ selpc = "create_nerf"
    /\ LET ckpts == Ckpts([ft_path |-> NoPath], ckpt_dir)
       IN  chosen_path' = IF Len(ckpts) > 0 THEN ckpts[Len(ckpts)] ELSE NoPath
    /\ selpc' = "loaded"
    /\ UNCHANGED <<selcall, ckpt_dir>>
    /\ UNCHANGED <<procVars, histVars, renderVars, pathVars, rawVars, iterVars, stratVars>>

\* the start goes on with the loaded state
SelReturn ==
    /\ selpc = "loaded"
    /\ selcall' = [N_iter |-> 0]
    /\ selpc' = "idle"
    /\ ckpt_dir' = NoFiles
    /\ chosen_path' = NoPath
    /\ UNCHANGED <<procVars, histVars, renderVars, pathVars, rawVars, iterVars, stratVars>>

-----------------------------------------------------------------------------
(* Families of configurations, and the specification of each *)

\* Two configurations that together reach every step of train()
CoreConfigs == { BaseArgs, [BaseArgs EXCEPT !.render_only = TRUE] }

\* Start-up validation: dataset type, time range, depth-loss kind, depth use
StartupConfigs ==
    CoreConfigs \cup
    { [BaseArgs EXCEPT !.dataset_type = d, !.times = t, !.depth_loss_type = l,
                       !.depth_loss_weight = w, !.use_depth_guided_sampling = g,
                       !.config = c, !.use_two_models_for_fine = f]
      : d \in DatasetTypes, t \in TimesChoices, l \in DepthLossTypes,
        w \in {0, 1}, g \in BOOLEAN, c \in BOOLEAN, f \in BOOLEAN }

\* Checkpoints: budget and save interval, with either the reload flags (under
\* an experiment name that contains 'tar') or per-frame latent codes (on a
\* capture with two training frames)
ReloadConfigs ==
    { [BaseArgs EXCEPT !.expname = TarExpName,
                       !.N_iter = n, !.i_weights = w,
                       !.i_print = MaxInterval, !.i_img = MaxInterval,
                       !.i_video = MaxInterval, !.i_testset = MaxInterval,
                       !.no_reload = nr, !.ft_path = ft]
      : n \in 1..MaxIter, w \in 1..MaxInterval, nr \in BOOLEAN,
        ft \in {NoPath, CkptName(1)} }
    \cup
    { [BaseArgs EXCEPT !.expname = TarExpName,
                       !.no_reload = nr, !.ft_path = ft, !.render_only = ro]
      : nr \in BOOLEAN, ft \in {NoPath, NoneString, CkptName(1)},
        ro \in BOOLEAN }

LatentConfigs ==
    { [BaseArgs EXCEPT !.times = <<0, 1, 0, 1>>,
                       !.i_train = <<1, 2>>, !.i_val = <<3>>, !.i_test = <<4>>,
                       !.use_latent_codes_as_time = TRUE,
                       !.N_iter = n, !.i_weights = w,
                       !.i_print = MaxIter + 1, !.i_img = MaxIter + 1,
                       !.i_video = MaxIter + 1, !.i_testset = MaxIter + 1,
                       !.ft_path = ft]
      : n \in 1..MaxIter, w \in 1..MaxInterval, ft \in {NoPath, CkptName(1)} }

CkptConfigs == CoreConfigs \cup ReloadConfigs \cup LatentConfigs

\* Modes: render-only, test-set rendering, global ray shuffling, budget
ModeConfigs ==
    CoreConfigs \cup
    { [BaseArgs EXCEPT !.dataset_type = d, !.depth_loss_weight = 0,
                       !.render_only = ro, !.render_test = rt,
                       !.no_batching = nb, !.no_reload = nr, !.N_iter = n,
                       !.i_print = MaxInterval, !.i_img = MaxInterval,
                       !.i_video = MaxInterval, !.i_testset = MaxInterval]
      : d \in {"blender", "deepdeform"}, ro \in BOOLEAN, rt \in BOOLEAN,
        nb \in BOOLEAN, nr \in BOOLEAN, n \in 0..MaxIter }

\* Periodic side effects: the five intervals
PeriodicConfigs ==
    CoreConfigs \cup
    { [BaseArgs EXCEPT !.dataset_type = d, !.depth_loss_weight = 0,
                       !.N_iter = MaxIter,
                       !.i_weights = w, !.i_print = p, !.i_img = g,
                       !.i_video = v, !.i_testset = t]
      : d \in {"blender", "deepdeform"},
        w \in 1..MaxInterval, p \in 1..MaxInterval, g \in 1..MaxInterval,
        v \in 1..MaxInterval, t \in 1..MaxInterval }

\* exports with latent codes: two training frames (1, 2), frame 3 for
\* validation and frame 4 for testing; the trajectory starts at frame 1
ExportConfigs ==
    { [BaseArgs EXCEPT !.times = <<0, 1, 0, 1>>, !.i_train = <<1, 2>>,
                       !.i_val = <<3>>, !.i_test = <<4>>,
                       !.use_latent_codes_as_time = lc, !.render_only = ro,
                       !.n_render = nr, !.N_iter = MaxIter,
                       !.i_weights = MaxInterval, !.i_print = MaxIter + 1,
                       !.i_img = MaxIter + 1, !.i_video = v,
                       !.i_testset = MaxIter + 1]
        : lc \in BOOLEAN, ro \in BOOLEAN, nr \in 1..MaxRenderPoses,
          v \in 1..MaxInterval }

\* one long run over a whole decay period, every periodic output silent
ScheduleConfigs ==
    CoreConfigs \cup
    { [BaseArgs EXCEPT !.lrate_decay = d, !.N_iter = d * 1000 + 1,
                       !.i_weights = d * 1000 + 2, !.i_print = d * 1000 + 2,
                       !.i_img = d * 1000 + 2, !.i_video = d * 1000 + 2,
                       !.i_testset = d * 1000 + 2]
        : d \in 1..MaxLrateDecay }

\* optimization steps whose raw gradients lie within and beyond the clipping
\* value, with and without latent codes, every periodic output silent
StepConfigs ==
    CoreConfigs \cup
    { [BaseArgs EXCEPT !.times = <<0, 1, 0, 1>>, !.i_train = <<1, 2>>,
                       !.i_val = <<3>>, !.i_test = <<4>>,
                       !.use_latent_codes_as_time = lc, !.grad_values = {-2, 1},
                       !.N_iter = MaxIter, !.i_weights = MaxIter + 1,
                       !.i_print = MaxIter + 1, !.i_img = MaxIter + 1,
                       !.i_video = MaxIter + 1, !.i_testset = MaxIter + 1]
        : lc \in BOOLEAN }

\* Budgets: every budget from 0 on and every save interval, nothing else
\* periodic
BudgetConfigs ==
    CoreConfigs \cup
    { [BaseArgs EXCEPT !.N_iter = n, !.i_weights = w,
                       !.i_print = MaxIter + 1, !.i_img = MaxIter + 1,
                       !.i_video = MaxIter + 1, !.i_testset = MaxIter + 1]
      : n \in 0..MaxIter, w \in 1..MaxInterval }

StartCkpt     == Start(CkptConfigs, MaxRuns)
StartBudget   == Start(BudgetConfigs, 2)
StartStep     == Start(StepConfigs, 1)
StartSchedule == Start(ScheduleConfigs, 1)
StartExport   == Start(ExportConfigs, MaxRuns)
StartStartup  == Start(StartupConfigs, 1)
StartMode     == Start(ModeConfigs, MaxRuns)
StartPeriodic == Start(PeriodicConfigs, 1)

Next         == StartCkpt \/ Steps
NextStartup  == StartStartup \/ Steps
NextMode     == StartMode \/ Steps
NextPeriodic == StartPeriodic \/ Steps

NextBudget   == StartBudget \/ Steps

NextExport   == StartExport \/ Steps

NextSchedule == StartSchedule \/ Steps

NextStep     == StartStep \/ Steps

NextRaw      == RawCall \/ RawWeights \/ RawMaps \/ RawReturn

NextPath     == PathCall \/ PathFrame \/ PathStack \/ PathReturn

NextStrat    == StratCall \/ Stratify \/ StratReturn

NextSelect   == SelCall \/ SelLoad \/ SelReturn

NextIter     == IterCall \/ SampleImage \/ SelectPixels \/ MainRender \/ TvRender
                \/ Losses \/ IterReturn

RenderCall   == RenderStart(RenderCalls)
RenderReturn == RenderEnd(FALSE)
RepeatCall   == RenderStart(RepeatCalls)
RepeatReturn == RenderEnd(TRUE)

NextRepeat   == RepeatCall \/ RenderCat \/ BatchifyChunk \/ BatchifyCat \/ RepeatReturn

NextRender   == RenderCall \/ RenderCat \/ BatchifyChunk \/ BatchifyCat \/ RenderReturn

Spec         == Init /\ [][Next]_vars
SpecStartup  == Init /\ [][NextStartup]_vars
SpecMode     == Init /\ [][NextMode]_vars
SpecPeriodic == Init /\ [][NextPeriodic]_vars
SpecRender   == Init /\ [][NextRender]_vars
SpecExport   == Init /\ [][NextExport]_vars
SpecSchedule == Init /\ [][NextSchedule]_vars
SpecStep     == Init /\ [][NextStep]_vars
SpecRepeat   == Init /\ [][NextRepeat]_vars
SpecRaw      == Init /\ [][NextRaw]_vars
SpecPath     == Init /\ [][NextPath]_vars
SpecIter     == Init /\ [][NextIter]_vars
\* train() is sequential code: a run that can take a step takes it
SpecBudget   == Init /\ [][NextBudget]_vars /\ WF_vars(Steps)
SpecStrat    == Init /\ [][NextStrat]_vars
SpecSelect   == Init /\ [][NextSelect]_vars

-----------------------------------------------------------------------------
(* Properties of start-up validation (SpecStartup) *)

\* The run has left nothing behind and has not begun to train: no experiment
\* directory, no args.txt / config.txt, no checkpoint load, no logging sink,
\* no iteration, untouched weights and optimizer.
NothingDone ==
    /\ ~dirExists
    /\ files = NoFiles
    /\ effects = << >>
    /\ loaded = NoPath
    /\ ~writer
    /\ trace = << >>
    /\ network_fn = 0
    /\ optimizer = InitOptimizer

\* The positions of train() before line 944
BeforeSetup == pc \in {"load_data", "check_times", "check_depth", "done"}

\* The current run trains on a dataset without depth maps and asks for depth
NoDepthRun == pc # "idle" /\ ~HasDepthMaps(args) /\ comp_depth(args)

\* C1 as stated: a run on a dataset without depth maps that requests
\* depth-guided sampling or a positive depth-loss weight creates no directory,
\* writes no args.txt / config.txt, loads no checkpoint and runs no iteration,
\* and it ends by a printed warning and a return.
C1_Original ==
    NoDepthRun =>
        /\ NothingDone
        /\ BeforeSetup
        /\ pc = "done" => outcome \in Warnings

\* C1 as amended: such a run creates no directory, writes no args.txt /
\* config.txt, loads no checkpoint and runs no iteration; it ends by a printed
\* warning and a return when the training times pass the assertions of lines
\* 915-921, and by the AssertionError of those lines when they do not.
C1_AbortBeforeSetup ==
    NoDepthRun =>
        /\ NothingDone
        /\ BeforeSetup
        /\ pc = "done" =>
             outcome = IF ~TimesAccepted(args) THEN "AssertionError"
                       ELSE IF args.depth_loss_type \notin {"mse", "gnll"}
                       THEN "warn_depth_loss_type"
                       ELSE "warn_no_depth_maps"

\* C1 witness: a depth-requesting run without depth maps was turned away by
\* the warning of line 927
C1_Witness ==
    /\ NoDepthRun
    /\ pc = "done"
    /\ outcome = "warn_no_depth_maps"
    /\ args.use_depth_guided_sampling
    /\ args.depth_loss_weight = 0

\* The current run has an unsupported dataset type or depth-loss kind
RejectedRun ==
    /\ pc # "idle"
    /\ \/ args.dataset_type \notin {"blender", "deepdeform", "owndataset"}
       \/ args.depth_loss_type \notin {"mse", "gnll"}

\* C6 as stated: a run with an unsupported dataset type or an invalid
\* depth-loss kind returns with a printed warning, raises no exception, and
\* leaves no directory, no args.txt / config.txt, no checkpoint load, no
\* logging sink and no iteration.
C6_Original ==
    RejectedRun =>
        /\ pc = "done" => outcome \in Warnings
        /\ BeforeSetup
        /\ NothingDone

\* C6 as amended: such a run leaves no partial state; with an unsupported
\* dataset type it returns with a warning; with a supported dataset type and
\* an invalid depth-loss kind it returns with a warning when the training
\* times pass the assertions of lines 915-921, which are evaluated first, and
\* raises their AssertionError when they do not.
C6_CleanRejection ==
    RejectedRun =>
        /\ BeforeSetup
        /\ NothingDone
        /\ pc = "done" =>
             outcome = IF args.dataset_type \notin {"blender", "deepdeform", "owndataset"}
                       THEN "warn_unknown_dataset"
                       ELSE IF TimesAccepted(args) THEN "warn_depth_loss_type"
                       ELSE "AssertionError"

\* C6 witness: a supported dataset with depth maps and a depth-loss kind that
\* is neither 'mse' nor 'gnll' was turned away by the warning of line 924
C6_Witness ==
    /\ RejectedRun
    /\ pc = "done"
    /\ outcome = "warn_depth_loss_type"
    /\ HasDepthMaps(args)

-----------------------------------------------------------------------------
(* Properties of the run modes (SpecMode) *)

\* The number of times the current run performed the side effect e
Count(seq, e) == Cardinality({ k \in DOMAIN seq : seq[k] = e })

\* The optimizer as create_nerf() left it: the loaded state, or a fresh one
OptimizerAtStart ==
    IF loaded # NoPath THEN files[loaded].optimizer_state_dict ELSE InitOptimizer

\* The current run is in render-only mode
RenderOnlyRun == pc # "idle" /\ args.render_only

\* C2: a render-only run performs no optimizer step and no learning-rate
\* update, leaves global_step at the start step and writes no checkpoint; it
\* ends by returning, after one call of render_path that left one frame per
\* (pose, time) pair and exactly two videos in
\* renderonly_{test|path}_<start:06d>/.
C2_RenderOnly ==
    RenderOnlyRun =>
        /\ Count(effects, "optimizer.step") = 0
        /\ Count(effects, "torch.save") = 0
        /\ trace = << >>
        /\ pc \notin {"create_nerf", "setup", "load_data", "check_times", "check_depth"}
             => global_step = start /\ optimizer = OptimizerAtStart
        /\ pc = "done" =>
             /\ outcome = "render_only_return"
             /\ Count(effects, "render_path") = 1
             /\ Count(effects, "mimwrite") = 2
             /\ RenderOnlyDir(args.render_test, start) \in DOMAIN files
             /\ LET d == files[RenderOnlyDir(args.render_test, start)]
                IN  /\ Cardinality(d.estim) = RenderPoses(args)
                    /\ Cardinality(d.estim_depth) = RenderPoses(args)
                    /\ Cardinality(d.videos) = 2

\* The current run selected global ray shuffling (no_batching is not set)
BatchingRun == pc # "idle" /\ use_batching(args)

\* C5: a run that selected global ray shuffling performs no optimizer step,
\* writes no checkpoint, and ends by raising an error, whatever the start
\* step and the iteration budget.
C5_ShuffleRaises ==
    BatchingRun =>
        /\ Count(effects, "optimizer.step") = 0
        /\ Count(effects, "torch.save") = 0
        /\ pc = "done" => outcome = "NotImplementedError"

-----------------------------------------------------------------------------
(* Properties of checkpoints (Spec) *)

\* create_nerf() has returned and train() has not yet moved on
AfterCreateNerf == pc \in {"prepare", "render_only"}

\* The current run reloaded a checkpoint written for the same capture and
\* latent mode (as many latent codes as this run creates)
Resumed ==
    /\ pc \notin {"idle", "load_data", "check_times", "check_depth", "setup", "create_nerf"}
    /\ loaded # NoPath
    /\ Len(held[loaded].latents) = Len(InitLatents(args))

\* C3: a run that reloads the checkpoint saved at iteration k holds, after the
\* load, the global step the saving run had when it finished iteration k and
\* the optimizer state, network weights and per-frame latent codes the saving
\* run held at the save; its iterations are k+1, k+2, ... in steps of one, and
\* every iteration i runs with global_step = i - 1, as in an uninterrupted run.
C3_RoundTrip ==
    Resumed =>
        LET h == held[loaded]
        IN  /\ AfterCreateNerf =>
                 /\ global_step = h.global_step + 1
                 /\ start = h.i
                 /\ network_fn = h.network_fn
                 /\ network_fine = h.network_fine
                 /\ optimizer = h.optimizer
                 /\ latents = h.latents
            /\ \A j \in DOMAIN trace : trace[j] = <<h.i + j, h.i + j - 1>>

\* C3 witness: a run in latent-code mode resumed from a checkpoint whose
\* latent codes had been optimized, and ran the iteration after the saved one
C3_Witness ==
    /\ Resumed
    /\ args.use_latent_codes_as_time
    /\ \E k \in DOMAIN latents : held[loaded].latents[k] > 0
    /\ held[loaded].optimizer.t > 0
    /\ Len(trace) = 1
    /\ trace[1][1] = held[loaded].i + 1

\* C7: a checkpoint save always writes to a file that does not exist yet, and
\* every checkpoint file ever written, in any run on the experiment directory,
\* still exists with the content it was first written with.
C7_NeverOverwritten ==
    /\ (pc = "i_weights" /\ WeightsDue(args, i)) => CkptName(i) \notin DOMAIN files
    /\ \A n \in DOMAIN written : n \in DOMAIN files /\ files[n] = written[n]

\* The greatest name of a non-empty set of names, in Python's string order
LastName(T) == CHOOSE m \in T : \A y \in T \ {m} : StrLess(y, m)

\* The file create_nerf() is expected to load, or NoPath when there is none
ExpectedCkpt ==
    LET T == { n \in DOMAIN files : \E k \in 1..Len(n) - 2 :
                  n[k] = "t" /\ n[k + 1] = "a" /\ n[k + 2] = "r" }
        wanted == ~args.no_reload \/ args.render_only
    IN  IF args.ft_path \notin {NoPath, NoneString}
        THEN IF wanted THEN args.ft_path ELSE NoPath
        ELSE IF wanted /\ T # {} THEN LastName(T) ELSE NoPath

\* C8: when create_nerf() returns, the checkpoint it loaded is the explicit
\* fine-tune path if one is given, otherwise the last in lexicographic order
\* of the files whose name contains 'tar', and it is loaded if and only if
\* there is such a candidate and (reload is not suppressed or the run is
\* render-only); when nothing is loaded the start step is 0 and weights,
\* optimizer and latent codes are the initial ones; a run that fails in the
\* load was loading exactly that candidate.
C8_Selection ==
    /\ AfterCreateNerf =>
         /\ loaded = ExpectedCkpt
         /\ loaded # NoPath => Count(effects, "torch.load") = 1
         /\ loaded = NoPath =>
              /\ Count(effects, "torch.load") = 0
              /\ start = 0
              /\ global_step = 0
              /\ network_fn = 0
              /\ optimizer = InitOptimizer
              /\ latents = InitLatents(args)
    /\ (pc = "done" /\ outcome \in {"FileNotFoundError", "UnpicklingError"}) =>
         /\ ExpectedCkpt # NoPath
         /\ outcome = "FileNotFoundError" <=> ExpectedCkpt \notin DOMAIN files
         /\ outcome = "UnpicklingError" =>
              ExpectedCkpt \in DOMAIN files /\ files[ExpectedCkpt].kind # "ckpt"

\* C8 witness: with two checkpoints in the directory and no fine-tune path the
\* later one was loaded
C8_Witness ==
    /\ AfterCreateNerf
    /\ args.ft_path = NoPath
    /\ CkptName(1) \in DOMAIN files
    /\ loaded = CkptName(2)

-----------------------------------------------------------------------------
(* Properties of the periodic side effects (SpecPeriodic) *)

\* The five periodic side effects in the order of the claim, each with the
\* interval the claim gives it
PeriodicEffects == <<"save", "print", "img", "video", "testset">>

IntervalOf(a, e) ==
    CASE e = "save" -> a.i_weights
      [] e = "print" -> a.i_print
      [] e = "img" -> a.i_img
      [] e = "video" -> a.i_video
      [] e = "testset" -> a.i_testset

\* The first n periodic effects that are due in iteration k, in order
RECURSIVE FiredUpTo(_, _, _)
FiredUpTo(a, k, n) ==
    IF n = 0 THEN << >>
    ELSE FiredUpTo(a, k, n - 1) \o
         (IF k % IntervalOf(a, PeriodicEffects[n]) = 0
          THEN <<PeriodicEffects[n]>> ELSE << >>)

\* How many of the five gates the iteration has passed at each position
GatesPassed ==
    CASE pc = "i_weights" -> 0
      [] pc = "i_print" -> 1
      [] pc = "i_img" -> 2
      [] pc = "i_video" -> 3
      [] pc = "i_testset" -> 4
      [] pc = "incr" -> 5

\* C9: in every training iteration i the events after the optimization step
\* are exactly those periodic effects whose own interval divides i, in the
\* order save, print, image, video, test set, each decided by its own
\* interval alone; they all come after the optimizer step of iteration i
\* (global_step is still i - 1) and the increment of global_step follows them;
\* a checkpoint, a video and a test-set directory of iteration i exist exactly
\* when their effect was due.
C9_Periodic ==
    /\ pc \in {"i_weights", "i_print", "i_img", "i_video", "i_testset", "incr"} =>
         /\ iterlog = StepEvents \o FiredUpTo(args, i, GatesPassed)
         /\ global_step = i - 1
         /\ Count(effects, "optimizer.step") = Len(trace)
         /\ trace[Len(trace)] = <<i, global_step>>
    /\ pc = "incr" =>
         /\ CkptName(i) \in DOMAIN files <=> i % args.i_weights = 0
         /\ MovieRgb(args.expname, i) \in DOMAIN files <=> i % args.i_video = 0
         /\ MovieDisp(args.expname, i) \in DOMAIN files <=> i % args.i_video = 0
         /\ TestsetDir(i) \in DOMAIN files <=> i % args.i_testset = 0
    /\ (pc = "loop" /\ trace # << >>) =>
         /\ iterlog = StepEvents \o FiredUpTo(args, i - 1, 5) \o <<"global_step += 1">>
         /\ global_step = i - 1
    /\ (pc = "done" /\ outcome = "TypeError") =>
         /\ iterlog = StepEvents \o FiredUpTo(args, i, 5)
         /\ i % args.i_testset = 0

\* C9 witness: an iteration in which all five effects fired, in a run whose
\* intervals differ, so that an earlier iteration had only some of them
C9_Witness ==
    /\ pc = "incr"
    /\ i = 2
    /\ iterlog = StepEvents \o PeriodicEffects
    /\ args.i_weights = 1 /\ args.i_print = 2 /\ args.i_img = 1
    /\ args.i_video = 2 /\ args.i_testset = 2
    /\ CkptName(1) \in DOMAIN files
    /\ TestsetDir(1) \notin DOMAIN files

-----------------------------------------------------------------------------
(* Properties of one render call (SpecRender) *)

\* What one call of render_rays() on the whole batch returns
Unchunked == render_rays(rays, LatentCodes(rcall), rcall)

\* range(0, N, chunk) as a list
ChunkOffsets(N, chunk) == [ j \in 1..((N + chunk - 1) \div chunk) |-> (j - 1) * chunk ]

\* C4: under the test render configuration batchify_rays() processes the
\* chunks at the offsets 0, chunk, 2*chunk, ... in this order, and for every
\* output key the concatenated result holds, ray by ray and in ray order, the
\* values that one call of render_rays() on the whole batch returns, whatever
\* the chunk size; while the loop runs, the results so far are the results of
\* the unchunked call for the rays processed so far.
C4_ChunkInvariance ==
    /\ rpc = "batchify" =>
         /\ chunks = SubSeq(ChunkOffsets(rcall.N, rcall.chunk), 1, Len(chunks))
         /\ offset = Len(chunks) * rcall.chunk
         /\ \A key \in RetKeys : Cat(all_ret[key]) = Slice(Unchunked[key], 0, offset)
    /\ rpc = "return" =>
         /\ chunks = ChunkOffsets(rcall.N, rcall.chunk)
         /\ DOMAIN all_ret = RetKeys
         /\ \A key \in RetKeys : all_ret[key] = Unchunked[key]

\* C4 witness: a batch of three rays went through in two chunks, the last one
\* shorter, with depth-guided fine sampling, view directions and a depth prior
C4_Witness ==
    /\ rpc = "return"
    /\ rcall.N = 3 /\ rcall.chunk = 2
    /\ chunks = <<0, 2>>
    /\ rcall.use_depth_guided_sampling /\ rcall.N_importance = 1
    /\ rcall.use_viewdirs /\ rcall.rays_depth
    /\ Len(all_ret["rgb_map"]) = 3

\* C10: for every combination of view directions, depth prior and scalar time
\* or latent code of any size, what render_rays() read by column position for
\* a ray is what render() wrote for that ray: near, far and the first time
\* column at 6, 7, 8, the ray's view direction at 9-11 when view directions
\* are on, the ray's depth prior in the three columns that follow when one was
\* supplied, and no depth prior when none was supplied.
C10_LayoutConsistent ==
    rpc = "return" =>
        \A r \in 1..rcall.N :
            LET read == all_ret["rgb_map"][r].read
            IN  /\ read.rays_o = Triple("o", r)
                /\ read.rays_d = Triple("d", r)
                /\ read.near = Cell("near", 0, 1)
                /\ read.far = Cell("far", 0, 1)
                /\ read.frame_time = FrameTime(rcall)[r]
                /\ read.viewdirs = IF rcall.use_viewdirs THEN Triple("viewdir", r) ELSE None
                /\ read.depth_range = IF rcall.rays_depth THEN Triple("depth", r) ELSE None

-----------------------------------------------------------------------------
(* Exports with latent codes *)

\* C11: every export (render-only, periodic video) renders each frame with
\* the latent code of that frame as it is at the moment of the export (as
\* restored from the checkpoint and optimized so far), not with the value
\* the code had when it was created.
C11_ExportsUseCurrentCodes ==
    \A j \in DOMAIN exported :
        \A k \in DOMAIN exported[j].times :
            exported[j].times[k].frame > 0
                => exported[j].times[k].code
                     = exported[j].current[exported[j].times[k].frame]

-----------------------------------------------------------------------------
(* render_path with ground truth *)

\* C12: every directory written by a render_path call that was given
\* ground-truth images and depths (render-only on the test set, the
\* periodic test-set re-render) holds the ground truth mirrored in gt/ and
\* gt_depth/, frame for frame, and the metrics have been computed for it.
C12_GroundTruthMirrored ==
    \A name \in DOMAIN files :
        (files[name].kind = "dir" /\ files[name].gt_given)
            => /\ files[name].gt = files[name].estim
               /\ files[name].gt_depth = files[name].estim_depth
               /\ files[name].metrics > 0

-----------------------------------------------------------------------------
(* render_path(): frame export *)

\* The names written into one subdirectory, in the order of the writes
WrittenInto(sub) == SelectSeq(imwrites, LAMBDA w : w[1] = sub)

\* The number a string of decimal digits stands for
RECURSIVE NameValue(_)
NameValue(name) ==
    IF name = << >> THEN 0
    ELSE 10 * NameValue(SubSeq(name, 1, Len(name) - 1))
         + (Ord(name[Len(name)]) - Ord("0"))

\* A number written with at least three digits and no more zeros in front
\* than that takes
ThreeDigits(name) ==
    /\ Len(name) >= 3
    /\ \A k \in 1..Len(name) : name[k] \in {Digit(d) : d \in 0..9}
    /\ Len(name) > 3 => name[1] # "0"

\* The frames of subdirectory `sub` are exactly one per input, in input
\* order, the k-th named by k + i_offset padded to three digits, all different
FramesExported(sub) ==
    LET w == WrittenInto(sub)
    IN  /\ Len(w) = pcall.n
        /\ \A k \in 1..Len(w) :
              /\ ThreeDigits(w[k][2])
              /\ NameValue(w[k][2]) = k - 1 + pcall.i_offset
        /\ \A j, k \in 1..Len(w) : j # k => w[j][2] # w[k][2]

\* C13 as stated: every call with a save directory, once its loop is over,
\* has returned stacks of n frames (it never raises), having written n color
\* frames and n depth frames named by k + i_offset.
C13_Original ==
    (ppc \in {"return", "raised"} /\ pcall.savedir)
        => /\ pret.kind = "return"
           /\ FramesExported("estim")
           /\ FramesExported("estim_depth")

\* C13: every call of render_path() with a save directory and n >= 1 (pose,
\* time) pairs ends by a return, having written exactly n color frames into
\* estim/ and n depth frames into estim_depth/, one pair per input in input
\* order, the k-th named by k + i_offset zero-padded to 3 digits, no two
\* with the same name, and returns three stacks of exactly n frames; a call
\* with no pair writes no frame and raises ValueError.
C13_FrameExport ==
    (ppc \in {"return", "raised"} /\ pcall.savedir)
        => /\ FramesExported("estim")
           /\ FramesExported("estim_depth")
           /\ IF pcall.n >= 1
              THEN /\ pret.kind = "return"
                   /\ Len(pret.rgbs) = pcall.n
                   /\ Len(pret.disps) = pcall.n
                   /\ Len(pret.depths) = pcall.n
                   /\ \A k \in 1..pcall.n : pret.rgbs[k] = k - 1
              ELSE pret = [kind |-> "raise", error |-> "ValueError"]

\* C13 witness: two frames exported from base offset 9, named 009 and 010
C13_Witness ==
    /\ ppc = "return"
    /\ pcall.n = 2 /\ pcall.i_offset = 9 /\ pcall.savedir
    /\ WrittenInto("estim") = << <<"estim", <<"0", "0", "9">> >>,
                                 <<"estim", <<"0", "1", "0">> >> >>
    /\ Len(pret.rgbs) = 2

-----------------------------------------------------------------------------
(* The learning-rate schedule *)

\* The optimization step of the current iteration has been taken
StepTaken == pc \in {"i_weights", "i_print", "i_img", "i_video", "i_testset", "incr"}

RECURSIVE Pow10(_)
Pow10(n) == IF n = 0 THEN 1 ELSE 10 * Pow10(n - 1)

\* The rate in units of 1e-7, where the exponent is a whole number
RateUnits(a, lr) == a.lrate \div Pow10(lr.num \div lr.den)

\* the rate lr2 is not above the rate lr1
NotAbove(lr2, lr1) == lr2.num * lr1.den >= lr1.num * lr2.den

\* C14: after every training step the learning rate is
\* lrate * 0.1^(global_step / (lrate_decay * 1000)): the base rate exactly at
\* global_step 0, one tenth of it at global_step = lrate_decay * 1000
\* (5e-5 for 5e-4); and the rate never goes up during a run.
C14_Schedule ==
    /\ [](StepTaken =>
            /\ optimizer.lr.den > 0
            /\ optimizer.lr.num * (args.lrate_decay * 1000)
                 = global_step * optimizer.lr.den
            /\ global_step = 0 => /\ optimizer.lr.num = 0
                                   /\ RateUnits(args, optimizer.lr) = args.lrate
            /\ global_step = args.lrate_decay * 1000
                 => /\ optimizer.lr.num = optimizer.lr.den
                    /\ 10 * RateUnits(args, optimizer.lr) = args.lrate)
    /\ [][pc # "done" => NotAbove(optimizer'.lr, optimizer.lr)]_vars

\* C14 witness: the step at global_step = lrate_decay * 1000 has been taken
\* from the base rate 5e-4 and the rate is 5e-5
C14_Witness ==
    /\ StepTaken
    /\ args.lrate = 5000
    /\ global_step = args.lrate_decay * 1000
    /\ RateUnits(args, optimizer.lr) = 500

-----------------------------------------------------------------------------
(* Time-range validation *)

\* The times of the training frames
TrainTimes(a) == { a.times[a.i_train[k]] : k \in 1..Len(a.i_train) }

\* The run is past the start-up validation of the frame times
PastTimeValidation ==
    pc \in {"check_depth", "setup", "create_nerf", "render_only", "prepare", "loop",
            "body", "i_weights", "i_print", "i_img", "i_video", "i_testset", "incr"}

\* C15: a run gets past the start-up validation only if, on synthetic data,
\* the smallest training time is 0 and the largest is 1, and, on either kind
\* of real capture (deepdeform, owndataset), every training frame's time lies
\* in [0,1]; and no optimization step is ever taken on a capture that
\* violates this.
C15_TimesValidated ==
    (PastTimeValidation \/ trace # << >>)
        => /\ args.dataset_type = "blender"
                => /\ \A t \in TrainTimes(args) : t >= 0 /\ t <= 1
                   /\ 0 \in TrainTimes(args) /\ 1 \in TrainTimes(args)
           /\ args.dataset_type \in {"deepdeform", "owndataset"}
                => \A t \in TrainTimes(args) : t >= 0 /\ t <= 1

-----------------------------------------------------------------------------
(* Coarse and fine network *)

\* The current run has been through create_nerf()
CreateNerfCalled == Count(effects, "args.txt") > 0 /\ pc # "create_nerf"

\* C17: with two-model hierarchical sampling requested, create_nerf()
\* succeeds and leaves a fine network next to the coarse one; without it,
\* there is no fine network and the coarse one serves both passes.
C17_NetworkSetup ==
    CreateNerfCalled
        => IF args.use_two_models_for_fine
           THEN outcome # "AttributeError" /\ network_fine # "None"
           ELSE network_fine = "None"

-----------------------------------------------------------------------------
(* raw2outputs(): compositing weights and depth statistics *)

\* The sign of a quantity at e = 1e-10: that of its first coefficient that is
\* not 0 (every coefficient is below 2^31 in size, far below 1/e)
RECURSIVE PSign(_)
PSign(q) ==
    IF q = << >> THEN 0
    ELSE IF Head(q) > 0 THEN 1
    ELSE IF Head(q) < 0 THEN -1
    ELSE PSign(Tail(q))

Abs(x) == IF x < 0 THEN -x ELSE x

\* q / d <= 1e-5 at e = 1e-10: the constant term is negative, or it is 0 and
\* the other terms, each at most |coefficient| * e, stay below 1e-5 * d
WithinTolerance(q, d) ==
    \/ Head(q) < 0
    \/ /\ Head(q) = 0
       /\ SumSeq([ k \in 1..Len(Tail(q)) |-> Abs(Tail(q)[k]) ]) <= 100000 * d

\* The product of 1 - alpha_j + e over the samples j of J, over 2^|J|
RECURSIVE ProductOver(_, _)
ProductOver(alpha, J) ==
    IF J = {} THEN <<1>>
    ELSE LET j == CHOOSE x \in J : TRUE
         IN  PMul(<<2 - alpha[j], 2>>, ProductOver(alpha, J \ {j}))

\* raw2outputs() has computed the weights of the ray
WeightsComputed == rawpc \in {"maps", "return"}

\* C18: for every ray and alpha sequence with values in [0,1],
\* weight_i = alpha_i * prod_{j<i} (1 - alpha_j + 1e-10), every weight is
\* >= 0, and acc_map, the sum of the weights, is at most 1 + 1e-5.
C18_Weights ==
    /\ WeightsComputed =>
          LET n == Len(rawcall.alpha)
          IN  /\ Len(weights) = n
              /\ \A k \in 1..n :
                    /\ weights[k] = PScale(rawcall.alpha[k] * Pow2(n - k),
                                           ProductOver(rawcall.alpha, 1..(k - 1)))
                    /\ PSign(weights[k]) >= 0
    /\ rawpc = "return" =>
          /\ acc_map = PSum(weights)
          /\ WithinTolerance(PAdd(acc_map, << -Pow2(Len(rawcall.alpha)) >>),
                             Pow2(Len(rawcall.alpha)))

\* C18 witness: a ray of three samples, half opaque, opaque, opaque: the
\* weights are 1/2, (1/2 + e) and (1/2 + e) * e, and acc_map exceeds 1 by
\* e * (3/2 + e)
C18_Witness ==
    /\ rawpc = "return"
    /\ rawcall.alpha = <<1, 2, 2>>
    /\ weights = << <<4>>, <<4, 8>>, <<0, 4, 8>> >>
    /\ acc_map = <<8, 12, 8>>

\* The weights are 1 on one sample and 0 on all the others
Concentrated ==
    \E k \in 1..Len(weights) :
        /\ weights[k] = << Pow2(Len(weights)) >> \o [ j \in 1..(Len(weights[k]) - 1) |-> 0 ]
        /\ \A j \in 1..Len(weights) : j # k => PSign(weights[j]) = 0

\* The sign of the radicand of depth_std_map, q / d + plus * 1e-6 with
\* d = 2^(3n): that of the constant term of q when it is not 0 (1 / d is far
\* above 1e-6); else that of plus * 1e-6 when the terms in e, each at most
\* |coefficient| * 1e-10 / d, stay below it; else that of q when plus is 0.
\* depth_std_map, the square root, is 0 exactly when the radicand is.
RadicandSign(std, d) ==
    IF Head(std.radicand) # 0 THEN PSign(std.radicand)
    ELSE IF std.plus > 0
            /\ SumSeq([ k \in 1..Len(std.radicand) |-> Abs(std.radicand[k]) ])
                  < std.plus * 10000 * d
         THEN 1
    ELSE IF std.plus = 0 THEN PSign(std.radicand)
    ELSE -2

\* depth_std_map is the square root of a radicand that is never negative
DepthStdNonNegative ==
    rawpc = "return" => RadicandSign(depth_std_map, Pow2(3 * Len(weights))) >= 0

\* C19: depth_std_map is non-negative for every ray, and it is 0 whenever
\* the weights are 1 on a single sample and 0 on all the others.
C19_DepthStd ==
    /\ DepthStdNonNegative
    /\ (rawpc = "return" /\ Concentrated)
          => RadicandSign(depth_std_map, Pow2(3 * Len(weights))) = 0

-----------------------------------------------------------------------------
(* The optimization step *)

\* a gradient the optimizer step applied comes from iteration k alone and no
\* component of it is above 0.1 in size
FreshAndClipped(g, k) == g.from = {k} /\ g.value >= -1 /\ g.value <= 1

\* C20: in every training iteration the operations come in the order render,
\* clearing of the gradients (the latent codes' included), backward,
\* clipping by value to [-0.1, 0.1], optimizer step, learning-rate update;
\* the step applies no gradient of an earlier iteration and no component
\* above 0.1 in size.
C20_StepOrder ==
    StepTaken
        => /\ SubSeq(iterlog, 1, 6) = << "render", "zero_grad", "backward",
                                         "clip_grad_value_", "optimizer.step", "lr" >>
           /\ FreshAndClipped(applied.network_fn, i)
           /\ \A k \in 1..Len(applied.latents) :
                 applied.latents[k] # NoGrad => FreshAndClipped(applied.latents[k], i)

\* C20 witness: the second iteration of a run with latent codes sampled the
\* frame other than the first iteration's, its raw gradient -0.2 was clipped
\* to -0.1, and the code of the first frame, whose gradient was cleared, got
\* no update
C20_Witness ==
    /\ StepTaken
    /\ i = 2
    /\ args.use_latent_codes_as_time
    /\ latents[1] = 1 /\ latents[2] = 1
    /\ applied.latents[1] = NoGrad
    /\ applied.latents[2] = [ from |-> {2}, value |-> -1 ]
    /\ applied.network_fn = [ from |-> {2}, value |-> -1 ]

-----------------------------------------------------------------------------
(* The train and the test render configuration *)

\* The call in progress runs under render_kwargs_test
TestCall == rpc # "idle" /\ rcall.mode = "test"

\* The entries of a keyword dictionary other than perturb, raw_noise_std
\* (and the tag that tells the two dictionaries apart)
SharedEntries(kw) ==
    [ N_importance |-> kw.N_importance, use_viewdirs |-> kw.use_viewdirs,
      use_depth_guided_sampling |-> kw.use_depth_guided_sampling,
      network_fn |-> kw.network_fn, network_fine |-> kw.network_fine ]

\* C16: under the test dictionary (perturb off, raw_noise_std 0) a render
\* call takes no random draw, so a call with the same arguments as the call
\* before it returns the same outputs; and the test dictionary of any options
\* has perturb off and raw_noise_std 0 and agrees with the train dictionary
\* on every other entry, the network objects included.
C16_TestDeterministic ==
    /\ TestCall
          => /\ rcall.perturb = 0 /\ rcall.raw_noise_std = 0
             /\ draws = << >>
             /\ (rpc = "return" /\ prev.call = rcall) => all_ret = prev.ret
    /\ \A o \in RenderOptions :
          /\ RenderKwargsTest(RenderKwargsTrain(o)).perturb = 0
          /\ RenderKwargsTest(RenderKwargsTrain(o)).raw_noise_std = 0
          /\ SharedEntries(RenderKwargsTest(RenderKwargsTrain(o)))
               = SharedEntries(RenderKwargsTrain(o))

\* C16 witness: a test-dictionary call with hierarchical fine sampling and a
\* depth prior, on two rays in two chunks, returned for the second time in a
\* row, with the same outputs
C16_Witness ==
    /\ rpc = "return"
    /\ rcall.mode = "test" /\ rcall.N_importance = 1 /\ rcall.rays_depth
    /\ rcall.chunk = 1 /\ chunks = <<0, 1>>
    /\ prev.call = rcall
    /\ all_ret = prev.ret
    /\ Len(all_ret["rgb_map"]) = 2

-----------------------------------------------------------------------------
(* Properties of one training iteration (SpecIter) *)

\* the first render of the iteration has returned
Rendered == ipc \in {"tv", "loss", "done"} /\ extras # {}

\* the position-delta fields of a dictionary of outputs
DeltaKeys(ex) == ex \cap {"position_delta", "position_delta_0"}

C22_Original ==
    Rendered =>
        \A ex \in {extras} \cup { rerenders[k].extras : k \in DOMAIN rerenders } :
            IF icall.N_importance > 0 THEN CoarseKeys \subseteq ex
            ELSE CoarseKeys \cap ex = {}

\* C22: the outputs hold all the coarse outputs when N_importance > 0, a
\* separate coarse network is used and the call was handed no z_vals; in
\* every other case, in particular with N_importance = 0, they hold none.
C22_CoarseOutputs ==
    Rendered =>
        /\ IF icall.N_importance > 0 /\ icall.use_two_models_for_fine
           THEN CoarseKeys \subseteq extras
           ELSE CoarseKeys \cap extras = {}
        /\ \A k \in DOMAIN rerenders : CoarseKeys \cap rerenders[k].extras = {}
        /\ \A ex \in {extras} \cup { rerenders[k].extras : k \in DOMAIN rerenders } :
              RetKeys \ k_extract \subseteq ex

\* C22 witness: with two networks and importance sampling the first render
\* returned the coarse outputs and the render that was handed z_vals did not
C22_Witness ==
    /\ ipc = "loss"
    /\ icall.N_importance > 0 /\ icall.use_two_models_for_fine
    /\ "rgb0" \in extras /\ "position_delta_0" \in extras
    /\ Len(rerenders) = 1
    /\ "rgb0" \notin rerenders[1].extras

\* the frames of a list
Frames(list) == { list[k] : k \in DOMAIN list }

\* whether x lies between a and b
Between(x, a, b) == (a <= x /\ x <= b) \/ (b <= x /\ x <= a)

\* the training frames right before and right after a training frame
TrainNeighbours(c, img) == { f \in Frames(c.i_train) : f = img - 1 \/ f = img + 1 }

\* C23: in an iteration with the temporal-smoothness loss on a capture with
\* two or more training frames, once the renders are done exactly one render
\* at a perturbed time was made, toward a neighbouring training frame (the
\* only one at the first and the last training frame), at a time between the
\* sampled frame's time and that neighbour's, with the first render's z_vals.
C23_TimePerturbation ==
    (ipc = "loss" /\ icall.add_tv_loss /\ Len(icall.i_train) >= 2) =>
        /\ Len(rerenders) = 1
        /\ rerenders[1].neighbour \in TrainNeighbours(icall, img_idx)
        /\ Between(rerenders[1].frame_time, 2 * icall.times[img_idx],
                   2 * icall.times[rerenders[1].neighbour])
        /\ rerenders[1].z_vals = "extras['z_vals']"

\* how many leading entries of the training list the warm-up window opens
WarmupPrefix(k, p, n) == IF (k * n) \div p > 3 THEN (k * n) \div p ELSE 3

\* an image was drawn for the iteration
ImageDrawn == ipc \in {"pixels", "render", "tv", "loss", "done"}

\* C24: before iteration precrop_iters_time the image is one of the first
\* max(3, floor(i * |train| / precrop_iters_time)) training frames, from then
\* on one of the training list; the prefix the code draws from never shrinks
\* from one iteration to a later one; the image is always a training frame.
C24_Curriculum ==
    ImageDrawn =>
        LET p == icall.precrop_iters_time
            n == Len(icall.i_train)
        IN  /\ img_idx \in Frames(icall.i_train)
            /\ icall.i < p =>
                 img_idx \in Frames(Prefix(icall.i_train, WarmupPrefix(icall.i, p, n)))
            /\ \A a, b \in 0..(p - 1) :
                 a < b =>
                   /\ WarmupPrefix(a, p, n) <= WarmupPrefix(b, p, n)
                   /\ \A Pa \in ImagePools([icall EXCEPT !.i = a]),
                         Pb \in ImagePools([icall EXCEPT !.i = b]) : Len(Pa) <= Len(Pb)

\* C24 witness: inside the window the prefix has grown to four of the five
\* or more training frames, and the fourth was drawn
C24_Witness ==
    /\ ipc = "pixels"
    /\ icall.i < icall.precrop_iters_time
    /\ WarmupPrefix(icall.i, icall.precrop_iters_time, Len(icall.i_train)) = 4
    /\ Len(icall.i_train) > 4
    /\ img_idx = icall.i_train[4]

\* the centred crop of the claim: dH, dW and the rows and columns
CropRows(c) ==
    LET dH == ((c.H \div 2) * c.precrop_frac[1]) \div c.precrop_frac[2]
    IN  ((c.H \div 2) - dH) .. ((c.H \div 2) + dH - 1)
CropCols(c) ==
    LET dW == ((c.W \div 2) * c.precrop_frac[1]) \div c.precrop_frac[2]
    IN  ((c.W \div 2) - dW) .. ((c.W \div 2) + dW - 1)

\* the number of candidate pixels of the iteration
Candidates(c) ==
    IF c.i < c.precrop_iters THEN Cardinality(CropRows(c)) * Cardinality(CropCols(c))
    ELSE c.H * c.W

\* the pixel selection of the iteration is over
PixelsDone == ipc \in {"render", "tv", "loss", "done"}

\* C25: the selected pixels are N_rand pairwise different pixels of the
\* image, inside the centred crop while i < precrop_iters; with N_rand
\* greater than the number of candidate pixels the iteration fails and no
\* pixel is selected.
C25_PixelSelection ==
    PixelsDone =>
        IF icall.N_rand > Candidates(icall)
        THEN iret = "ValueError" /\ select_coords = << >>
        ELSE /\ Len(select_coords) = icall.N_rand
             /\ \A a, b \in DOMAIN select_coords : a # b => select_coords[a] # select_coords[b]
             /\ \A a \in DOMAIN select_coords :
                  /\ select_coords[a][1] \in 0..(icall.H - 1)
                  /\ select_coords[a][2] \in 0..(icall.W - 1)
                  /\ icall.i < icall.precrop_iters =>
                       /\ select_coords[a][1] \in CropRows(icall)
                       /\ select_coords[a][2] \in CropCols(icall)

\* C25 witness: two different pixels were selected inside a crop that is
\* smaller than the image
C25_Witness ==
    /\ ipc = "render"
    /\ icall.i < icall.precrop_iters
    /\ Candidates(icall) < icall.H * icall.W
    /\ Len(select_coords) = 2
    /\ select_coords[1] # select_coords[2]

-----------------------------------------------------------------------------
(* Properties of stratified sampling (SpecStrat) *)

\* the stratum of sample k, in quarters: from the midpoint to the previous
\* sample (near for the first) to the midpoint to the next (far for the last)
StratumLow(z, k) == IF k = 1 THEN 4 * z[1] ELSE 2 * (z[k - 1] + z[k])
StratumHigh(z, k) == IF k = Len(z) THEN 4 * z[Len(z)] ELSE 2 * (z[k] + z[k + 1])

\* C26: for every increasing coarse sequence and every draw of offsets each
\* perturbed depth lies in its own stratum, so the perturbed sequence is
\* non-decreasing and within [near, far]; with perturb 0 the coarse depths
\* are unchanged.
C26_Stratified ==
    spc = "done" =>
        LET z == scall.z_coarse
        IN  /\ Len(z_strat) = Len(z)
            /\ scall.perturb = 0 => \A k \in DOMAIN z : z_strat[k] = 4 * z[k]
            /\ \A k \in DOMAIN z :
                 /\ StratumLow(z, k) <= z_strat[k]
                 /\ z_strat[k] <= StratumHigh(z, k)
                 /\ 4 * z[1] <= z_strat[k]
                 /\ z_strat[k] <= 4 * z[Len(z)]
            /\ \A k \in 1..(Len(z) - 1) : z_strat[k] <= z_strat[k + 1]

\* C26 witness: three unevenly spaced depths were perturbed, the middle one
\* moved away from its coarse depth
C26_Witness ==
    /\ spc = "done"
    /\ scall.perturb = 1
    /\ Len(scall.z_coarse) = 3
    /\ scall.z_coarse[2] - scall.z_coarse[1] # scall.z_coarse[3] - scall.z_coarse[2]
    /\ z_strat[2] # 4 * scall.z_coarse[2]

-----------------------------------------------------------------------------
(* Properties of the choice among a run's own checkpoints (SpecSelect) *)

\* the steps saved in the directory
SavedSteps == { ckpt_dir[n].global_step : n \in DOMAIN ckpt_dir }

\* C30: with only the program's own checkpoints in the directory and no
\* fine-tune path, the checkpoint chosen at start-up is the one with the
\* greatest saved step.
C30_LatestReloaded ==
    (selpc = "loaded" /\ ckpt_dir # NoFiles) =>
        /\ chosen_path \in DOMAIN ckpt_dir
        /\ \A s \in SavedSteps : s <= ckpt_dir[chosen_path].global_step

-----------------------------------------------------------------------------
(* Properties of the iteration budget and of the step counter *)

\* the run is inside the training loop (from line 1057 on)
InLoop == pc \in {"loop", "body", "i_weights", "i_print", "i_img", "i_video",
                  "i_testset", "incr"}

\* the run went through the loop to its end without an error
Completed == pc = "done" /\ outcome = "completed"

\* the step the run started from: `start` before line 1056 added one
LoadedStep == start - 1

\* max(0, N_iter - s)
Budget(a, s) == IF a.N_iter > s THEN a.N_iter - s ELSE 0

\* the iterations of the run so far are start+1, start+2, ... in this order,
\* each with its own optimizer step, and none lies beyond N_iter
IterationsInOrder ==
    /\ \A k \in DOMAIN trace : trace[k][1] = LoadedStep + k
    /\ Len(trace) <= Budget(args, LoadedStep)
    /\ Count(effects, "optimizer.step") = Len(trace)

\* C27: a training run executes the iterations start+1, ..., N_iter, each
\* once and in increasing order; a run that raises no error ends after
\* exactly max(0, N_iter - start) optimizer steps, none when the loaded step
\* is N_iter or more; and every run that enters the loop comes to its end.
C27_Budget ==
    /\ []((InLoop \/ Completed) => IterationsInOrder)
    /\ [](Completed =>
            /\ Len(trace) = Budget(args, LoadedStep)
            /\ Count(effects, "optimizer.step") = Budget(args, LoadedStep))
    /\ (InLoop ~> pc = "done")

\* C27 witness: a run resumed from the checkpoint of step 1 with a budget of
\* 2 has ended after the single iteration 2
C27_Witness ==
    /\ Completed
    /\ loaded # NoPath
    /\ LoadedStep = 1
    /\ args.N_iter = 2
    /\ trace = << <<2, 1>> >>

\* C28: everywhere in the loop body i = global_step + 1, in a fresh run and
\* in a resumed one, and every checkpoint <i:06d>.tar the program wrote holds
\* global_step = i.
C28_StepCounter ==
    /\ (InLoop /\ pc # "loop") => i = global_step + 1
    /\ \A k \in DOMAIN trace : trace[k][1] = trace[k][2] + 1
    /\ \A k \in 1..(MaxIter + 1) :
          CkptName(k) \in DOMAIN written =>
              /\ written[CkptName(k)].global_step = k
              /\ files[CkptName(k)].global_step = k

\* C28 witness: a resumed run is in its second iteration of the directory,
\* with the checkpoints of both iterations on disk
C28_Witness ==
    /\ pc = "i_print"
    /\ loaded # NoPath
    /\ i = 2 /\ global_step = 1
    /\ CkptName(1) \in DOMAIN written
    /\ CkptName(2) \in DOMAIN written

-----------------------------------------------------------------------------
(* Runs on a capture without depth maps *)

\* C29: a run on the synthetic format (no depth maps) that passed start-up
\* validation never ends in an error raised because depth maps are absent.
C29_NoDepthMapsNeeded ==
    (pc = "done" /\ args.dataset_type = "blender" /\ ~comp_depth(args)) =>
        outcome # "TypeError"

====
